---- MODULE Spec2Model ----
(***************************************************************************)
(* Model of the influencer/sponsor marketplace server: the six relational *)
(* tables of server/src/db/schema.ts and the tRPC handlers of              *)
(* server/src/handlers.  Every database round trip of a handler is one     *)
(* atomic step; a handler that awaits several round trips occupies a       *)
(* request slot between them, so concurrent requests interleave at         *)
(* statement granularity, as they do on the shared connection pool.        *)
(* The view state of the client's create forms is the variable ui; while   *)
(* no client is attached it stays NoView.                                  *)
(***************************************************************************)
EXTENDS Integers, Sequences, FiniteSets, TLC

VARIABLES influencers, accounts, perfs, sponsors, products, campaigns,
          serial, now, req, last, calls, ui

tables == <<influencers, accounts, perfs, sponsors, products, campaigns>>
vars == <<influencers, accounts, perfs, sponsors, products, campaigns,
          serial, now, req, last, calls, ui>>

\* No client component is mounted.
NoView == [mounted |-> FALSE]

(* ------------------------------ bounds -------------------------------- *)
MaxCalls == 4        \* handler invocations in one behaviour
MaxInFlight == 2     \* requests awaiting a database round trip at once
MaxTime == 1         \* clock readings 0..MaxTime
MaxPatchFields == 2  \* optional keys one update input carries
PatchCalls == 2      \* updates issued against the stored rows
BudgetCalls == 3     \* campaign writes issued in a budget run
MaxStoredCampaigns == 2  \* campaigns in a store that is searched
ReadCalls == 1       \* reads issued against a drawn store
MaxStoredInfluencers == 2  \* influencers in a store that is searched
MaxStoredAccounts == 2     \* their social media accounts
MaxStoredIndicators == 2   \* their performance-indicator rows
MaxStoredProducts == 2     \* products in a store that is read by sponsor
PageCalls == 2            \* searches made over the seeded influencers
OptionalCalls == 2        \* creates with optional fields left out
StatusCalls == 2          \* status updates of the stored campaigns
DeleteCalls == 3          \* creates and deletes on the stored sponsors
FollowerCalls == 2        \* account creates on the stored influencer
ClientCalls == 2          \* mutations the client forms send
MaxGestures == 6          \* dialogs opened or dismissed and forms filled in

(* ------------------------- values and coercions ----------------------- *)
\* A nullable column or an optional input value: NULL or Some(v).
NULL == <<>>
Some(v) == <<v>>

\* JS `x !== undefined` on an input object: the key is present.
Has(input, k) == k \in DOMAIN input

\* Mutant: `input.k || ''`, the empty string in place of null.
OrNullText_emptyDefault(input, k) ==
  IF Has(input, k) /\ input[k] # NULL /\ input[k] # Some("") THEN input[k] ELSE Some("")

\* JS `input.k || null` on a string | null | undefined: '' is falsy.
OrNullText(input, k) ==
  IF Has(input, k) /\ input[k] # NULL /\ input[k] # Some("") THEN input[k] ELSE NULL

\* The same on a text kept as a sequence of characters.
OrNullChars(input, k) ==
  IF Has(input, k) /\ input[k] # NULL /\ input[k] # Some(<<>>) THEN input[k] ELSE NULL

\* JS `input.k || null` on a Date | null | undefined: a Date is truthy.
OrNullDate(input, k) ==
  IF Has(input, k) /\ input[k] # NULL THEN input[k] ELSE NULL

\* JS `input.k || null` on a number | null | undefined: 0 is falsy.
OrNullInt(input, k) ==
  IF Has(input, k) /\ input[k] # NULL /\ input[k] # Some(0) THEN input[k] ELSE NULL

\* JS `input.k ?? null`: only null and undefined are replaced.
NullishInt(input, k) ==
  IF Has(input, k) THEN input[k] ELSE NULL

\* A row with the fields of patch overwritten (SQL UPDATE ... SET patch).
Patched(row, patch) ==
  [k \in DOMAIN row |-> IF k \in DOMAIN patch THEN patch[k] ELSE row[k]]

(* Numbers are counted in thousandths (1500 is 1.5); the text of a number  *)
(* is a sequence of characters.  A value that crosses the boundary is      *)
(* tagged: Num(n) is a JS number, Text(s) the text of a numeric column.    *)
Num(n) == [num |-> n]
Text(s) == [text |-> s]

DigitChar == <<"0", "1", "2", "3", "4", "5", "6", "7", "8", "9">>
DigitOf(c) == CHOOSE d \in 0..9 : DigitChar[d + 1] = c

RECURSIVE Digits(_)
Digits(k) == IF k < 10 THEN <<DigitChar[k + 1]>>
             ELSE Digits(k \div 10) \o <<DigitChar[(k % 10) + 1]>>

RECURSIVE DigitsValue(_)
DigitsValue(s) == IF s = <<>> THEN 0
                  ELSE 10 * DigitsValue(SubSeq(s, 1, Len(s) - 1)) + DigitOf(s[Len(s)])

RECURSIVE StripZeros(_)
StripZeros(s) == IF s # <<>> /\ s[Len(s)] = "0"
                 THEN StripZeros(SubSeq(s, 1, Len(s) - 1)) ELSE s

\* Number.prototype.toString of a positive number with at most three decimals:
\* the shortest text, no trailing zeros, no point for an integer.
NumToString(n) ==
  LET frac == StripZeros(<<DigitChar[((n % 1000) \div 100) + 1],
                           DigitChar[((n % 100) \div 10) + 1],
                           DigitChar[(n % 10) + 1]>>)
  IN  Digits(n \div 1000) \o (IF frac = <<>> THEN <<>> ELSE <<".">> \o frac)

\* The exact value (in thousandths) of a decimal text with at most three
\* fractional digits.
DotAt(s) == IF \E i \in 1..Len(s) : s[i] = "."
            THEN CHOOSE i \in 1..Len(s) : s[i] = "." ELSE Len(s) + 1
ParseDecimal(s) ==
  LET d == DotAt(s)
      frac == SubSeq(s, d + 1, Len(s))
      pad == frac \o SubSeq(<<"0", "0", "0">>, 1, 3 - Len(frac))
  IN  1000 * DigitsValue(SubSeq(s, 1, d - 1)) + DigitsValue(pad)

\* numeric(p, 2): the value rounded half away from zero to two decimals and
\* written back with exactly two decimals.
NumericScale2(s) ==
  LET cents == (ParseDecimal(s) + 5) \div 10
  IN  Digits(cents \div 100) \o <<".">> \o
      <<DigitChar[((cents % 100) \div 10) + 1], DigitChar[(cents % 10) + 1]>>

\* parseFloat of the text of a numeric column.
parseFloat(t) == Num(ParseDecimal(t.text))

(* ------------------------------ database ------------------------------ *)
\* A table is a function from the ids of its rows to the rows.
Rows(table) == {table[i] : i \in DOMAIN table}

\* SELECT ... WHERE id = :id
WhereId(table, id) == {row \in Rows(table) : row.id = id}

\* INSERT of a row under the id the table's serial sequence hands out.
Inserted(table, row) == [i \in DOMAIN table \cup {row.id} |->
                          IF i = row.id THEN row ELSE table[i]]

\* Mutant: the UPDATE carries no WHERE clause and patches every row.
Updated_everyRow(table, id, patch) == [i \in DOMAIN table |-> Patched(table[i], patch)]

\* UPDATE ... SET patch WHERE id = :id
Updated(table, id, patch) == [i \in DOMAIN table |->
                               IF i = id THEN Patched(table[i], patch) ELSE table[i]]

\* Mutant: the column carries no unique constraint.
UniqueTaken_unconstrained(table, col, value, selfId) == FALSE

\* A unique column: some other row already holds the value.
UniqueTaken(table, col, value, selfId) ==
  \E row \in Rows(table) : row.id # selfId /\ row[col] = value

\* nextval of a serial column; the value is consumed even when the INSERT fails.
\* Mutant: the sequence hands out its last value again.
NextVal_stuck(t) == IF serial[t] = 0 THEN 1 ELSE serial[t]

NextVal(t) == serial[t] + 1
Bump(t) == [serial EXCEPT ![t] = @ + 1]

Ok(v) == [ok |-> TRUE, value |-> v]
Err(e) == [ok |-> FALSE, error |-> e]
UniqueViolation(constraint) ==
  Err(<<"duplicate key value violates unique constraint", constraint>>)
ForeignKeyViolation(constraint) ==
  Err(<<"violates foreign key constraint", constraint>>)

(* ------------------------------ requests ------------------------------ *)
Slots == 1..MaxInFlight
Idle == [op |-> "idle"]
CanCall == calls < MaxCalls
HasFreeSlot == \E r \in Slots : req[r] = Idle
FreeSlot == CHOOSE r \in Slots : req[r] = Idle /\ \A q \in 1..(r - 1) : req[q] # Idle

\* A handler that answers in its first round trip.
Answer(op, input, result) ==
  /\ last' = [op |-> op, input |-> input, result |-> result]
  /\ calls' = calls + 1
  /\ UNCHANGED <<req, ui>>

\* A handler that awaits a further round trip: it takes a slot.
Await(op, input, pc, ts) ==
  /\ HasFreeSlot
  /\ req' = [req EXCEPT ![FreeSlot] = [op |-> op, input |-> input, pc |-> pc, ts |-> ts]]
  /\ calls' = calls + 1
  /\ UNCHANGED <<last, ui>>

\* The request in slot r moves on to its next round trip.
Goto(r, pc, ts) ==
  /\ req' = [req EXCEPT ![r] = [@ EXCEPT !.pc = pc, !.ts = ts]]
  /\ UNCHANGED <<last, calls, ui>>

\* The request in slot r returns or throws.
Finish(r, result) ==
  /\ last' = [op |-> req[r].op, input |-> req[r].input, result |-> result]
  /\ req' = [req EXCEPT ![r] = Idle]
  /\ UNCHANGED <<calls, ui>>

At(r, op, pc) == req[r] # Idle /\ req[r].op = op /\ req[r].pc = pc

(* ------------------------------- inputs ------------------------------- *)
MaxId == 2
InputIds == 1..MaxId
Emails == {"a@x.io", "b@x.io"}
\* budgets, in thousandths: 0.5 and 1234.56
Budgets == {500, 1234560}

\* createSponsor inputs: every optional field supplied.
CreateSponsorInputs ==
  {[company_name |-> "Acme", contact_email |-> e, contact_phone |-> Some("x"),
    industry |-> "Tech", description |-> Some("x")] : e \in Emails}

CreateProductInputs ==
  {[sponsor_id |-> s, name |-> "Widget", description |-> Some("x"),
    category |-> "tech", target_audience |-> Some("x")] : s \in InputIds}

CreateCampaignInputs ==
  {[sponsor_id |-> s, product_id |-> p, title |-> "Launch", budget |-> b,
    status |-> "draft", description |-> Some("x"), target_audience |-> Some("x"),
    objectives |-> Some("x"), start_date |-> Some(1), end_date |-> Some(1)] :
   s \in InputIds, p \in InputIds, b \in Budgets}

CreateInfluencerInputs ==
  {[name |-> "Ann", email |-> e, phone |-> Some("x"), bio |-> Some(<<"x">>),
    portfolio_description |-> Some(<<"x">>)] : e \in Emails}

CreateSocialMediaAccountInputs ==
  {[influencer_id |-> i, platform |-> "instagram", username |-> "ann",
    url |-> "https://x.io/ann", follower_count |-> Some(5)] : i \in InputIds}

CreatePerformanceIndicatorsInputs ==
  {[influencer_id |-> i, platform |-> "instagram", followers_count |-> 5,
    avg_views |-> Some(5), avg_engagement_rate |-> Some(3500),
    total_posts |-> Some(5)] : i \in InputIds}

\* Updates that move the unique column, or the status of a campaign.
UpdateEmails == Emails \cup {"c@x.io"}
UpdateSponsorInputs == {[id |-> i, contact_email |-> e] : i \in InputIds, e \in UpdateEmails}
UpdateInfluencerInputs == {[id |-> i, email |-> e] : i \in InputIds, e \in UpdateEmails}
UpdateCampaignInputs == {[id |-> i, status |-> "active"] : i \in InputIds}

(* ------------------------------ sponsors ------------------------------ *)
\* The row createSponsor inserts: .values({...}) plus the column defaults.
NewSponsor(input, id, at) ==
  [id |-> id,
   company_name |-> input.company_name,
   contact_email |-> input.contact_email,
   contact_phone |-> OrNullText(input, "contact_phone"),
   industry |-> input.industry,
   description |-> OrNullText(input, "description"),
   created_at |-> at, updated_at |-> at]

\* createSponsor: one INSERT ... RETURNING.
createSponsor(input) ==
  /\ CanCall
  /\ LET row == NewSponsor(input, NextVal("sponsors"), now)
     IN  IF UniqueTaken(sponsors, "contact_email", input.contact_email, row.id)
         THEN /\ Answer("createSponsor", input, UniqueViolation("sponsors_contact_email_unique"))
              /\ UNCHANGED sponsors
         ELSE /\ Answer("createSponsor", input, Ok(row))
              /\ sponsors' = Inserted(sponsors, row)
  /\ serial' = Bump("sponsors")
  /\ UNCHANGED <<influencers, accounts, perfs, products, campaigns, now>>

\* The row createProduct inserts.
NewProduct(input, id, at) ==
  [id |-> id,
   sponsor_id |-> input.sponsor_id,
   name |-> input.name,
   description |-> OrNullText(input, "description"),
   category |-> input.category,
   target_audience |-> OrNullText(input, "target_audience"),
   created_at |-> at, updated_at |-> at]

\* createProduct: one INSERT ... RETURNING; sponsor_id is a foreign key.
\* Mutant: products.sponsor_id carries no foreign key.
createProduct_unchecked(input) ==
  /\ CanCall
  /\ LET row == NewProduct(input, NextVal("products"), now)
     IN  /\ Answer("createProduct", input, Ok(row))
         /\ products' = Inserted(products, row)
  /\ serial' = Bump("products")
  /\ UNCHANGED <<influencers, accounts, perfs, sponsors, campaigns, now>>

createProduct(input) ==
  /\ CanCall
  /\ LET row == NewProduct(input, NextVal("products"), now)
     IN  IF WhereId(sponsors, input.sponsor_id) = {}
         THEN /\ Answer("createProduct", input, ForeignKeyViolation("products_sponsor_id_sponsors_id_fk"))
              /\ UNCHANGED products
         ELSE /\ Answer("createProduct", input, Ok(row))
              /\ products' = Inserted(products, row)
  /\ serial' = Bump("products")
  /\ UNCHANGED <<influencers, accounts, perfs, sponsors, campaigns, now>>

(* ------------------------------ campaigns ----------------------------- *)
NotFound(entity, id) == Err(<<entity, " with id ", id, " not found">>)
NotOwned(product_id, sponsor_id) ==
  Err(<<"Product ", product_id, " does not belong to sponsor ", sponsor_id>>)

\* Mutant: the row is returned as stored, budget left as text.
CampaignOut_text(row) == row

\* A campaign row as a handler returns it: budget parsed back to a number.
CampaignOut(row) == [row EXCEPT !.budget = parseFloat(row.budget)]

\* createCampaign is called: the first round trip is the sponsor SELECT.
createCampaign_call(input) ==
  /\ CanCall
  /\ Await("createCampaign", input, "selectSponsor", 0)
  /\ UNCHANGED <<tables, serial, now>>

\* Mutant: the sponsor check is left out.
createCampaign_selectSponsor_unchecked(r) ==
  /\ At(r, "createCampaign", "selectSponsor")
  /\ Goto(r, "selectProduct", 0)
  /\ UNCHANGED <<tables, serial, now>>

\* SELECT the sponsor; throw when there is none.
createCampaign_selectSponsor(r) ==
  /\ At(r, "createCampaign", "selectSponsor")
  /\ IF WhereId(sponsors, req[r].input.sponsor_id) = {}
     THEN Finish(r, NotFound("Sponsor", req[r].input.sponsor_id))
     ELSE Goto(r, "selectProduct", 0)
  /\ UNCHANGED <<tables, serial, now>>

\* Mutant: the product is only checked to exist, not to belong to the sponsor.
createCampaign_selectProduct_anyOwner(r) ==
  /\ At(r, "createCampaign", "selectProduct")
  /\ IF WhereId(products, req[r].input.product_id) = {}
     THEN Finish(r, NotFound("Product", req[r].input.product_id))
     ELSE Goto(r, "insert", 0)
  /\ UNCHANGED <<tables, serial, now>>

\* SELECT the product; throw when there is none or it has another sponsor.
createCampaign_selectProduct(r) ==
  /\ At(r, "createCampaign", "selectProduct")
  /\ LET input == req[r].input
         product == WhereId(products, input.product_id)
     IN  IF product = {}
         THEN Finish(r, NotFound("Product", input.product_id))
         ELSE IF (CHOOSE p \in product : TRUE).sponsor_id # input.sponsor_id
         THEN Finish(r, NotOwned(input.product_id, input.sponsor_id))
         ELSE Goto(r, "insert", 0)
  /\ UNCHANGED <<tables, serial, now>>

\* The row createCampaign inserts: budget.toString() into numeric(10, 2).
NewCampaign(input, id, at) ==
  [id |-> id,
   sponsor_id |-> input.sponsor_id,
   product_id |-> input.product_id,
   title |-> input.title,
   description |-> OrNullText(input, "description"),
   budget |-> Text(NumericScale2(NumToString(input.budget))),
   target_audience |-> OrNullText(input, "target_audience"),
   objectives |-> OrNullText(input, "objectives"),
   status |-> IF Has(input, "status") /\ input.status # "" THEN input.status ELSE "draft",
   start_date |-> OrNullDate(input, "start_date"),
   end_date |-> OrNullDate(input, "end_date"),
   created_at |-> at, updated_at |-> at]

\* INSERT the campaign and return it with the budget parsed.
createCampaign_insert(r) ==
  /\ At(r, "createCampaign", "insert")
  /\ LET input == req[r].input
         row == NewCampaign(input, NextVal("campaigns"), now)
     IN  IF WhereId(sponsors, input.sponsor_id) = {}
         THEN /\ Finish(r, ForeignKeyViolation("campaigns_sponsor_id_sponsors_id_fk"))
              /\ UNCHANGED campaigns
         ELSE IF WhereId(products, input.product_id) = {}
         THEN /\ Finish(r, ForeignKeyViolation("campaigns_product_id_products_id_fk"))
              /\ UNCHANGED campaigns
         ELSE /\ Finish(r, Ok(CampaignOut(row)))
              /\ campaigns' = Inserted(campaigns, row)
  /\ serial' = Bump("campaigns")
  /\ UNCHANGED <<influencers, accounts, perfs, sponsors, products, now>>

\* updateCampaign is called: the first round trip is the existence SELECT.
updateCampaign_call(input) ==
  /\ CanCall
  /\ Await("updateCampaign", input, "select", 0)
  /\ UNCHANGED <<tables, serial, now>>

\* SELECT ... LIMIT 1; throw when there is no such campaign.  The handler
\* then builds updateData, reading the clock for updated_at.
updateCampaign_select(r) ==
  /\ At(r, "updateCampaign", "select")
  /\ IF WhereId(campaigns, req[r].input.id) = {}
     THEN Finish(r, NotFound("Campaign", req[r].input.id))
     ELSE Goto(r, "update", now)
  /\ UNCHANGED <<tables, serial, now>>

\* Mutant: a completed or cancelled campaign keeps its status.
CampaignUpdateData_closedStays(input, ts) ==
  LET given == (DOMAIN input \ {"id"})
                 \ (IF campaigns[input.id].status \in {"completed", "cancelled"}
                    THEN {"status"} ELSE {})
  IN  [k \in given \cup {"updated_at"} |->
         IF k = "updated_at" THEN ts
         ELSE IF k = "budget" THEN Text(NumericScale2(NumToString(input.budget)))
         ELSE input[k]]

\* updateData: the supplied fields, budget as text, and updated_at.
CampaignUpdateData(input, ts) ==
  LET given == DOMAIN input \ {"id"}
  IN  [k \in given \cup {"updated_at"} |->
         IF k = "updated_at" THEN ts
         ELSE IF k = "budget" THEN Text(NumericScale2(NumToString(input.budget)))
         ELSE input[k]]

\* UPDATE ... RETURNING; result[0] is returned with the budget parsed.
updateCampaign_update(r) ==
  /\ At(r, "updateCampaign", "update")
  /\ LET input == req[r].input
     IN  IF WhereId(campaigns, input.id) = {}
         THEN /\ Finish(r, Err(<<"TypeError: undefined is not an object">>))
              /\ UNCHANGED campaigns
         ELSE /\ campaigns' = Updated(campaigns, input.id,
                                      CampaignUpdateData(input, req[r].ts))
              /\ Finish(r, Ok(CampaignOut(campaigns'[input.id])))
  /\ UNCHANGED <<influencers, accounts, perfs, sponsors, products, serial, now>>

(* --------------------------- sponsor updates -------------------------- *)
\* updateSponsor is called: fieldsToUpdate is built, with updated_at read
\* from the clock, before the UPDATE is sent.
updateSponsor_call(input) ==
  /\ CanCall
  /\ Await("updateSponsor", input, "update", now)
  /\ UNCHANGED <<tables, serial, now>>

\* Mutant: fields are copied on truthiness, so an explicit null is skipped.
SponsorFieldsToUpdate_truthy(input, ts) ==
  LET given == {k \in DOMAIN input \ {"id"} :
                 k \in {"contact_phone", "description"} => input[k] # NULL}
  IN  [k \in given \cup {"updated_at"} |-> IF k = "updated_at" THEN ts ELSE input[k]]

\* Mutant: the nullable columns are always written, null when not supplied.
SponsorFieldsToUpdate_nullables(input, ts) ==
  LET given == DOMAIN input \ {"id"}
  IN  [k \in given \cup {"contact_phone", "description", "updated_at"} |->
         IF k = "updated_at" THEN ts ELSE IF k \in given THEN input[k] ELSE NULL]

SponsorFieldsToUpdate(input, ts) ==
  LET given == DOMAIN input \ {"id"}
  IN  [k \in given \cup {"updated_at"} |-> IF k = "updated_at" THEN ts ELSE input[k]]

\* Mutant: result[0] is returned without the length check.
updateSponsor_update_unchecked(r) ==
  /\ At(r, "updateSponsor", "update")
  /\ LET input == req[r].input
     IN  IF WhereId(sponsors, input.id) = {}
         THEN /\ Finish(r, Ok(NULL))
              /\ UNCHANGED sponsors
         ELSE /\ sponsors' = Updated(sponsors, input.id,
                                     SponsorFieldsToUpdate(input, req[r].ts))
              /\ Finish(r, Ok(sponsors'[input.id]))
  /\ UNCHANGED <<influencers, accounts, perfs, products, campaigns, serial, now>>

\* UPDATE ... RETURNING; throw when no row came back.
updateSponsor_update(r) ==
  /\ At(r, "updateSponsor", "update")
  /\ LET input == req[r].input
     IN  IF WhereId(sponsors, input.id) = {}
         THEN /\ Finish(r, NotFound("Sponsor", input.id))
              /\ UNCHANGED sponsors
         ELSE IF Has(input, "contact_email")
                 /\ UniqueTaken(sponsors, "contact_email", input.contact_email, input.id)
         THEN /\ Finish(r, UniqueViolation("sponsors_contact_email_unique"))
              /\ UNCHANGED sponsors
         ELSE /\ sponsors' = Updated(sponsors, input.id,
                                     SponsorFieldsToUpdate(input, req[r].ts))
              /\ Finish(r, Ok(sponsors'[input.id]))
  /\ UNCHANGED <<influencers, accounts, perfs, products, campaigns, serial, now>>

(* --------------------------- campaign reads --------------------------- *)
\* A SELECT without ORDER BY may return its rows in any order.
Orders(rows) ==
  {o \in [1..Cardinality(rows) -> rows] :
     \A i, j \in 1..Cardinality(rows) : o[i] = o[j] => i = j}

Min(a, b) == IF a < b THEN a ELSE b

\* Mutant: LIMIT is applied to the rows before the offset is skipped.
Paginate_limitFirst(rows, limit, offset) ==
  SubSeq(rows, offset + 1, IF Len(rows) < limit THEN Len(rows) ELSE limit)

\* ... LIMIT limit OFFSET offset
Paginate(rows, limit, offset) == SubSeq(rows, offset + 1, Min(Len(rows), offset + limit))

\* A read handler answers in its one round trip and writes nothing.
AnswerRead(op, input, result) ==
  /\ Answer(op, input, result)
  /\ UNCHANGED <<tables, serial, now>>

\* getCampaigns: SELECT * FROM campaigns, budgets parsed.
getCampaigns ==
  /\ CanCall
  /\ \E o \in Orders(Rows(campaigns)) :
       AnswerRead("getCampaigns", [none |-> TRUE],
                  Ok([i \in 1..Len(o) |-> CampaignOut(o[i])]))

\* The value of a numeric column against a number passed as text.
\* Mutant: the lower bound is compared the wrong way round.
NumericGte_swapped(column, number) == ParseDecimal(column.text) <= ParseDecimal(NumToString(number))

NumericGte(column, number) == ParseDecimal(column.text) >= ParseDecimal(NumToString(number))
NumericLte(column, number) == ParseDecimal(column.text) <= ParseDecimal(NumToString(number))

\* Mutant: the lower budget bound is exclusive.
CampaignConditions_exclusiveMin(input, c, p) ==
  /\ Has(input, "category") => p.category = input.category
  /\ Has(input, "sponsor_id") => c.sponsor_id = input.sponsor_id
  /\ Has(input, "min_budget") => ~NumericLte(c.budget, input.min_budget)
  /\ Has(input, "max_budget") => NumericLte(c.budget, input.max_budget)
  /\ (Has(input, "status") /\ input.status # "") => c.status = input.status

\* The conditions array of searchCampaigns, joined by AND, on a campaign c
\* and (when category is given) its joined product p.
CampaignConditions(input, c, p) ==
  /\ Has(input, "category") => p.category = input.category
  /\ Has(input, "sponsor_id") => c.sponsor_id = input.sponsor_id
  /\ Has(input, "min_budget") => NumericGte(c.budget, input.min_budget)
  /\ Has(input, "max_budget") => NumericLte(c.budget, input.max_budget)
  /\ (Has(input, "status") /\ input.status # "") => c.status = input.status

\* The rows of the query before LIMIT/OFFSET: campaigns, inner-joined with
\* products when category is given, that pass the conditions.
CampaignMatches(input) ==
  IF Has(input, "category")
  THEN {j \in {[campaigns |-> c, products |-> p] :
                 c \in Rows(campaigns), p \in Rows(products)} :
          /\ j.campaigns.product_id = j.products.id
          /\ CampaignConditions(input, j.campaigns, j.products)}
  ELSE {[campaigns |-> c] : c \in {c \in Rows(campaigns) :
                                     CampaignConditions(input, c, c)}}

\* searchCampaigns: one SELECT; each result row's campaign with its budget parsed.
searchCampaigns(input) ==
  /\ CanCall
  /\ \E o \in Orders(CampaignMatches(input)) :
       LET page == Paginate(o, input.limit, input.offset)
       IN  AnswerRead("searchCampaigns", input,
                      Ok([i \in 1..Len(page) |-> CampaignOut(page[i].campaigns)]))

(* ------------------------------- get all ------------------------------ *)
\* getInfluencers: SELECT * FROM influencers, the rows as they are.
getInfluencers ==
  /\ CanCall
  /\ \E o \in Orders(Rows(influencers)) :
       AnswerRead("getInfluencers", [none |-> TRUE], Ok(o))

\* getSponsors: SELECT * FROM sponsors; created_at and updated_at are
\* copied into new Date objects of the same instant.
getSponsors ==
  /\ CanCall
  /\ \E o \in Orders(Rows(sponsors)) :
       AnswerRead("getSponsors", [none |-> TRUE],
                  Ok([i \in 1..Len(o) |->
                        [o[i] EXCEPT !.created_at = o[i].created_at,
                                     !.updated_at = o[i].updated_at]]))

\* getProducts: SELECT * FROM products, each row spread into a new object.
getProducts ==
  /\ CanCall
  /\ \E o \in Orders(Rows(products)) :
       AnswerRead("getProducts", [none |-> TRUE], Ok(o))

(* ------------------------- deletes at the store ----------------------- *)
\* The table without the rows of the given ids.
Without(table, ids) == [i \in DOMAIN table \ ids |-> table[i]]

\* The ids of the rows whose column col references one of ids.
Referencing(table, col, ids) == {i \in DOMAIN table : table[i][col] \in ids}

\* Mutant: campaigns.sponsor_id and campaigns.product_id do not cascade.
CampaignsCascaded_none(sponsorIds, productIds) == {}

\* ON DELETE CASCADE of campaigns: the campaigns that go with the given
\* sponsors and products.
CampaignsCascaded(sponsorIds, productIds) ==
  Referencing(campaigns, "sponsor_id", sponsorIds)
    \cup Referencing(campaigns, "product_id", productIds)

\* DELETE FROM sponsors WHERE id = :id, issued against the store: its
\* products go with it, and the campaigns of the sponsor and of those
\* products.
deleteSponsor(id) ==
  /\ CanCall
  /\ LET gone == DOMAIN sponsors \cap {id}
         goneProducts == Referencing(products, "sponsor_id", gone)
     IN  /\ sponsors' = Without(sponsors, gone)
         /\ products' = Without(products, goneProducts)
         /\ campaigns' = Without(campaigns, CampaignsCascaded(gone, goneProducts))
         /\ Answer("deleteSponsor", [id |-> id], Ok(Cardinality(gone)))
  /\ UNCHANGED <<influencers, accounts, perfs, serial, now>>

\* DELETE FROM products WHERE id = :id: its campaigns go with it.
deleteProduct(id) ==
  /\ CanCall
  /\ LET gone == DOMAIN products \cap {id}
     IN  /\ products' = Without(products, gone)
         /\ campaigns' = Without(campaigns, CampaignsCascaded({}, gone))
         /\ Answer("deleteProduct", [id |-> id], Ok(Cardinality(gone)))
  /\ UNCHANGED <<influencers, accounts, perfs, sponsors, serial, now>>

(* ----------------------------- influencers ---------------------------- *)
\* The row createInfluencer inserts.  bio and portfolio_description are
\* sequences of characters ('' is the empty sequence).
NewInfluencer(input, id, at) ==
  [id |-> id,
   name |-> input.name,
   email |-> input.email,
   phone |-> OrNullText(input, "phone"),
   bio |-> OrNullChars(input, "bio"),
   portfolio_description |-> OrNullChars(input, "portfolio_description"),
   created_at |-> at, updated_at |-> at]

\* createInfluencer: one INSERT ... RETURNING; email is unique.
createInfluencer(input) ==
  /\ CanCall
  /\ LET row == NewInfluencer(input, NextVal("influencers"), now)
     IN  IF UniqueTaken(influencers, "email", input.email, row.id)
         THEN /\ Answer("createInfluencer", input, UniqueViolation("influencers_email_unique"))
              /\ UNCHANGED influencers
         ELSE /\ Answer("createInfluencer", input, Ok(row))
              /\ influencers' = Inserted(influencers, row)
  /\ serial' = Bump("influencers")
  /\ UNCHANGED <<accounts, perfs, sponsors, products, campaigns, now>>

\* updateInfluencer is called: the first round trip is the existence SELECT.
updateInfluencer_call(input) ==
  /\ CanCall
  /\ Await("updateInfluencer", input, "select", 0)
  /\ UNCHANGED <<tables, serial, now>>

\* SELECT the influencer; throw when there is none.  The handler then
\* builds the SET clause, reading the clock for updated_at.
updateInfluencer_select(r) ==
  /\ At(r, "updateInfluencer", "select")
  /\ IF WhereId(influencers, req[r].input.id) = {}
     THEN Finish(r, NotFound("Influencer", req[r].input.id))
     ELSE Goto(r, "update", now)
  /\ UNCHANGED <<tables, serial, now>>

\* { ...updateFields, updated_at: new Date() }
InfluencerUpdateFields(input, ts) ==
  LET given == DOMAIN input \ {"id"}
  IN  [k \in given \cup {"updated_at"} |-> IF k = "updated_at" THEN ts ELSE input[k]]

\* UPDATE ... RETURNING; result[0] is returned.
updateInfluencer_update(r) ==
  /\ At(r, "updateInfluencer", "update")
  /\ LET input == req[r].input
     IN  IF WhereId(influencers, input.id) = {}
         THEN /\ Finish(r, Ok(NULL))
              /\ UNCHANGED influencers
         ELSE IF Has(input, "email")
                 /\ UniqueTaken(influencers, "email", input.email, input.id)
         THEN /\ Finish(r, UniqueViolation("influencers_email_unique"))
              /\ UNCHANGED influencers
         ELSE /\ influencers' = Updated(influencers, input.id,
                                        InfluencerUpdateFields(input, req[r].ts))
              /\ Finish(r, Ok(influencers'[input.id]))
  /\ UNCHANGED <<accounts, perfs, sponsors, products, campaigns, serial, now>>

(* ----------------- social media accounts and indicators --------------- *)
AccountParentError(id) == Err(<<"Influencer with ID ", id, " does not exist">>)
IndicatorParentError(id) == Err(<<"Influencer with ID ", id, " not found">>)

\* createSocialMediaAccount is called: the first round trip is the
\* influencer SELECT.
createSocialMediaAccount_call(input) ==
  /\ CanCall
  /\ Await("createSocialMediaAccount", input, "select", 0)
  /\ UNCHANGED <<tables, serial, now>>

createSocialMediaAccount_select(r) ==
  /\ At(r, "createSocialMediaAccount", "select")
  /\ IF WhereId(influencers, req[r].input.influencer_id) = {}
     THEN Finish(r, AccountParentError(req[r].input.influencer_id))
     ELSE Goto(r, "insert", 0)
  /\ UNCHANGED <<tables, serial, now>>

\* The row createSocialMediaAccount inserts.
NewAccount(input, id, at) ==
  [id |-> id,
   influencer_id |-> input.influencer_id,
   platform |-> input.platform,
   username |-> input.username,
   url |-> input.url,
   follower_count |-> OrNullInt(input, "follower_count"),
   created_at |-> at]

createSocialMediaAccount_insert(r) ==
  /\ At(r, "createSocialMediaAccount", "insert")
  /\ LET input == req[r].input
         row == NewAccount(input, NextVal("accounts"), now)
     IN  IF WhereId(influencers, input.influencer_id) = {}
         THEN /\ Finish(r, ForeignKeyViolation(
                             "social_media_accounts_influencer_id_influencers_id_fk"))
              /\ UNCHANGED accounts
         ELSE /\ Finish(r, Ok(row))
              /\ accounts' = Inserted(accounts, row)
  /\ serial' = Bump("accounts")
  /\ UNCHANGED <<influencers, perfs, sponsors, products, campaigns, now>>

\* createPerformanceIndicators is called: the first round trip is the
\* influencer SELECT.
createPerformanceIndicators_call(input) ==
  /\ CanCall
  /\ Await("createPerformanceIndicators", input, "select", 0)
  /\ UNCHANGED <<tables, serial, now>>

\* Mutant: the influencer check is left out.
createPerformanceIndicators_select_unchecked(r) ==
  /\ At(r, "createPerformanceIndicators", "select")
  /\ Goto(r, "insert", now)
  /\ UNCHANGED <<tables, serial, now>>

\* SELECT the influencer; throw when there is none.  The handler then
\* builds the row, reading the clock for last_updated and created_at.
createPerformanceIndicators_select(r) ==
  /\ At(r, "createPerformanceIndicators", "select")
  /\ IF WhereId(influencers, req[r].input.influencer_id) = {}
     THEN Finish(r, IndicatorParentError(req[r].input.influencer_id))
     ELSE Goto(r, "insert", now)
  /\ UNCHANGED <<tables, serial, now>>

\* avg_engagement_rate?.toString() ?? null, stored in a numeric(5, 2) column.
RateToColumn(input) ==
  IF Has(input, "avg_engagement_rate") /\ input.avg_engagement_rate # NULL
  THEN Some(Text(NumericScale2(NumToString(input.avg_engagement_rate[1]))))
  ELSE NULL

\* A performance-indicator row as a handler returns it: a non-empty rate
\* text is parsed, anything else becomes null.
PerformanceOut(row) ==
  [row EXCEPT !.avg_engagement_rate =
     IF @ # NULL /\ @[1].text # <<>> THEN Some(parseFloat(@[1])) ELSE NULL]

\* The row createPerformanceIndicators inserts.
NewIndicators(input, id, at) ==
  [id |-> id,
   influencer_id |-> input.influencer_id,
   platform |-> input.platform,
   followers_count |-> input.followers_count,
   avg_views |-> NullishInt(input, "avg_views"),
   avg_engagement_rate |-> RateToColumn(input),
   total_posts |-> NullishInt(input, "total_posts"),
   last_updated |-> at, created_at |-> at]

createPerformanceIndicators_insert(r) ==
  /\ At(r, "createPerformanceIndicators", "insert")
  /\ LET input == req[r].input
         row == NewIndicators(input, NextVal("perfs"), req[r].ts)
     IN  IF WhereId(influencers, input.influencer_id) = {}
         THEN /\ Finish(r, ForeignKeyViolation(
                             "performance_indicators_influencer_id_influencers_id_fk"))
              /\ UNCHANGED perfs
         ELSE /\ Finish(r, Ok(PerformanceOut(row)))
              /\ perfs' = Inserted(perfs, row)
  /\ serial' = Bump("perfs")
  /\ UNCHANGED <<influencers, accounts, sponsors, products, campaigns, now>>

(* ---------------------------- reads by parent ------------------------- *)
\* Mutant: the WHERE clause is left out.
getProductsBySponsor_all(sponsorId) ==
  /\ CanCall
  /\ \E o \in Orders(Rows(products)) :
       AnswerRead("getProductsBySponsor", [id |-> sponsorId], Ok(o))

\* getProductsBySponsor: SELECT * FROM products WHERE sponsor_id = :id, the
\* rows as they are.
getProductsBySponsor(sponsorId) ==
  /\ CanCall
  /\ \E o \in Orders({p \in Rows(products) : p.sponsor_id = sponsorId}) :
       AnswerRead("getProductsBySponsor", [id |-> sponsorId], Ok(o))

\* getPerformanceIndicatorsByInfluencer: SELECT * FROM
\* performance_indicators WHERE influencer_id = :id, the rate parsed.
getPerformanceIndicatorsByInfluencer(influencerId) ==
  /\ CanCall
  /\ \E o \in Orders({p \in Rows(perfs) : p.influencer_id = influencerId}) :
       AnswerRead("getPerformanceIndicatorsByInfluencer", [id |-> influencerId],
                  Ok([i \in 1..Len(o) |-> PerformanceOut(o[i])]))

(* -------------------------- influencer reads -------------------------- *)
\* getInfluencerById: SELECT ... WHERE id = :id; null when no row came back,
\* else result[0].
getInfluencerById(id) ==
  /\ CanCall
  /\ LET result == WhereId(influencers, id)
     IN  IF result = {}
         THEN AnswerRead("getInfluencerById", [id |-> id], Ok(NULL))
         ELSE \E row \in result : AnswerRead("getInfluencerById", [id |-> id], Ok(Some(row)))

\* Mutant: a missing sponsor is reported as an error, as the updates do.
getSponsorById_throws(id) ==
  /\ CanCall
  /\ LET result == WhereId(sponsors, id)
     IN  IF result = {}
         THEN AnswerRead("getSponsorById", [id |-> id], NotFound("Sponsor", id))
         ELSE \E row \in result : AnswerRead("getSponsorById", [id |-> id], Ok(Some(row)))

\* getSponsorById: the same on sponsors.
getSponsorById(id) ==
  /\ CanCall
  /\ LET result == WhereId(sponsors, id)
     IN  IF result = {}
         THEN AnswerRead("getSponsorById", [id |-> id], Ok(NULL))
         ELSE \E row \in result : AnswerRead("getSponsorById", [id |-> id], Ok(Some(row)))

\* Case folding of the characters the texts are made of.
LowerChar(c) == IF c = "A" THEN "a" ELSE IF c = "B" THEN "b" ELSE c
Lower(s) == [i \in 1..Len(s) |-> LowerChar(s[i])]

\* SQL LIKE: % matches any run of characters, _ any one character, a
\* backslash takes the next character literally.
RECURSIVE Like(_, _)
Like(s, p) ==
  IF p = <<>> THEN s = <<>>
  ELSE IF p[1] = "%" THEN Like(s, Tail(p)) \/ (s # <<>> /\ Like(Tail(s), p))
  ELSE IF p[1] = "_" THEN s # <<>> /\ Like(Tail(s), Tail(p))
  ELSE IF p[1] = "\\" /\ Len(p) > 1
       THEN s # <<>> /\ s[1] = p[2] /\ Like(Tail(s), Tail(Tail(p)))
  ELSE s # <<>> /\ s[1] = p[1] /\ Like(Tail(s), Tail(p))

\* column ILIKE pattern; NULL ILIKE anything is not true.
ILike(column, pattern) == column # NULL /\ Like(Lower(column[1]), Lower(pattern))

\* Mutant: the indicators are joined whatever the filters.
needsPerformanceJoin_always(input) == TRUE

needsPerformanceJoin(input) ==
  \/ Has(input, "min_followers") \/ Has(input, "max_followers")
  \/ Has(input, "min_engagement_rate") \/ Has(input, "category")
\* Mutant: the accounts are joined whatever the filters.
needsSocialMediaJoin_always(input) == TRUE

needsSocialMediaJoin(input) == Has(input, "platform") \/ Has(input, "category")

\* The conditions array of searchInfluencers, joined by AND, on an
\* influencer i and its joined account a and indicators p.  The category is
\* spliced between two % as it came.
InfluencerConditions(input, i, a, p) ==
  /\ (Has(input, "category") /\ input.category # <<>>) =>
       \/ ILike(i.bio, <<"%">> \o input.category \o <<"%">>)
       \/ ILike(i.portfolio_description, <<"%">> \o input.category \o <<"%">>)
  /\ Has(input, "min_followers") => p.followers_count >= input.min_followers
  /\ Has(input, "max_followers") => p.followers_count <= input.max_followers
  /\ (Has(input, "platform") /\ input.platform # "") => a.platform = input.platform
  /\ Has(input, "min_engagement_rate") =>
       /\ p.avg_engagement_rate # NULL
       /\ NumericGte(p.avg_engagement_rate[1], input.min_engagement_rate)

\* The joined rows that pass the WHERE clause: an influencer with each of
\* its accounts and each of its indicator rows, for the tables the filters
\* need (a table that is not joined contributes no column).
InfluencerJoin(input) ==
  {j \in {[influencers |-> i, accounts |-> a, perfs |-> p] :
            i \in Rows(influencers),
            a \in IF needsSocialMediaJoin(input) THEN Rows(accounts) ELSE {NULL},
            p \in IF needsPerformanceJoin(input) THEN Rows(perfs) ELSE {NULL}} :
     /\ j.accounts # NULL => j.accounts.influencer_id = j.influencers.id
     /\ j.perfs # NULL => j.perfs.influencer_id = j.influencers.id
     /\ InfluencerConditions(input, j.influencers, j.accounts, j.perfs)}

\* The rows of the query before LIMIT/OFFSET: the joined rows grouped by
\* the influencer's columns, one row for each group.
InfluencerMatches(input) == {j.influencers : j \in InfluencerJoin(input)}

\* Mutant: no GROUP BY, one result row for each joined row.
InfluencerResults_ungrouped(input) ==
  {[k \in 1..Len(o) |-> o[k].influencers] : o \in Orders(InfluencerJoin(input))}

\* The result rows before LIMIT/OFFSET, in any order the database picks.
InfluencerResults(input) == Orders(InfluencerMatches(input))

\* searchInfluencers: one SELECT, the rows returned as they are.
searchInfluencers(input) ==
  /\ CanCall
  /\ \E o \in InfluencerResults(input) :
       AnswerRead("searchInfluencers", input,
                  Ok(Paginate(o, input.limit, input.offset)))

EmptyTable == [i \in {} |-> i]

Init ==
  /\ influencers = EmptyTable /\ accounts = EmptyTable /\ perfs = EmptyTable
  /\ sponsors = EmptyTable /\ products = EmptyTable /\ campaigns = EmptyTable
  /\ serial = [influencers |-> 0, accounts |-> 0, perfs |-> 0,
               sponsors |-> 0, products |-> 0, campaigns |-> 0]
  /\ now = 0
  /\ req = [r \in Slots |-> Idle]
  /\ last = [op |-> "none"]
  /\ calls = 0
  /\ ui = NoView

\* The clock advances between any two steps.
Tick ==
  /\ now < MaxTime
  /\ now' = now + 1
  /\ UNCHANGED <<tables, serial, req, last, calls, ui>>

Next ==
  \/ Tick
  \/ \E input \in CreateSponsorInputs : createSponsor(input)
  \/ \E input \in CreateProductInputs : createProduct(input)
  \/ \E input \in CreateCampaignInputs : createCampaign_call(input)
  \/ \E r \in Slots : createCampaign_selectSponsor(r)
  \/ \E r \in Slots : createCampaign_selectProduct(r)
  \/ \E r \in Slots : createCampaign_insert(r)
  \/ \E input \in UpdateCampaignInputs : updateCampaign_call(input)
  \/ \E r \in Slots : updateCampaign_select(r)
  \/ \E r \in Slots : updateCampaign_update(r)
  \/ \E input \in UpdateSponsorInputs : updateSponsor_call(input)
  \/ \E r \in Slots : updateSponsor_update(r)
  \/ \E input \in CreateInfluencerInputs : createInfluencer(input)
  \/ \E input \in UpdateInfluencerInputs : updateInfluencer_call(input)
  \/ \E r \in Slots : updateInfluencer_select(r)
  \/ \E r \in Slots : updateInfluencer_update(r)
  \/ \E input \in CreateSocialMediaAccountInputs : createSocialMediaAccount_call(input)
  \/ \E r \in Slots : createSocialMediaAccount_select(r)
  \/ \E r \in Slots : createSocialMediaAccount_insert(r)
  \/ \E input \in CreatePerformanceIndicatorsInputs : createPerformanceIndicators_call(input)
  \/ \E r \in Slots : createPerformanceIndicators_select(r)
  \/ \E r \in Slots : createPerformanceIndicators_insert(r)

Spec == Init /\ [][Next]_vars

(* ------------------------- stores to start from ----------------------- *)
\* The tables a run of creates leaves behind: the i-th input of inputs was
\* inserted under id i at time 0.
StoredInfluencers(inputs) == [i \in 1..Len(inputs) |-> NewInfluencer(inputs[i], i, 0)]
StoredAccounts(inputs) == [i \in 1..Len(inputs) |-> NewAccount(inputs[i], i, 0)]
StoredIndicators(inputs) == [i \in 1..Len(inputs) |-> NewIndicators(inputs[i], i, 0)]
StoredSponsors(inputs) == [i \in 1..Len(inputs) |-> NewSponsor(inputs[i], i, 0)]
StoredProducts(inputs) == [i \in 1..Len(inputs) |-> NewProduct(inputs[i], i, 0)]
StoredCampaigns(inputs) == [i \in 1..Len(inputs) |-> NewCampaign(inputs[i], i, 0)]

\* The serial counters after those inserts.
SerialOf(i, a, p, s, pr, c) ==
  [influencers |-> Cardinality(DOMAIN i), accounts |-> Cardinality(DOMAIN a),
   perfs |-> Cardinality(DOMAIN p), sponsors |-> Cardinality(DOMAIN s),
   products |-> Cardinality(DOMAIN pr), campaigns |-> Cardinality(DOMAIN c)]

\* Nothing in flight, nothing answered yet, and `left` calls to go.
Quiet(left) ==
  /\ now = 0
  /\ req = [r \in Slots |-> Idle]
  /\ last = [op |-> "none"]
  /\ calls = MaxCalls - left
  /\ ui = NoView

SponsorOf(email) == CHOOSE i \in CreateSponsorInputs : i.contact_email = email
ProductOf(sponsor_id) == CHOOSE i \in CreateProductInputs : i.sponsor_id = sponsor_id
CampaignOf(sponsor_id, product_id, budget) ==
  CHOOSE i \in CreateCampaignInputs :
    i.sponsor_id = sponsor_id /\ i.product_id = product_id /\ i.budget = budget
InfluencerOf(email) == CHOOSE i \in CreateInfluencerInputs : i.email = email

(* --------------------------- partial updates -------------------------- *)
\* The update inputs the schema admits over the given options: every choice
\* of at most MaxPatchFields optional keys, each with one of its values.
RECURSIVE Fill(_, _, _)
Fill(opts, keys, acc) ==
  IF keys = {} THEN {acc}
  ELSE LET k == CHOOSE k \in keys : TRUE
       IN  UNION {Fill(opts, keys \ {k},
                       [j \in DOMAIN acc \cup {k} |-> IF j = k THEN v ELSE acc[j]]) :
                  v \in opts[k]}

Patches(opts) ==
  UNION {Fill(opts, keys, [id |-> i]) :
         keys \in {K \in SUBSET DOMAIN opts : Cardinality(K) <= MaxPatchFields},
         i \in InputIds}

SponsorPatches ==
  Patches([company_name |-> {"Beta"}, contact_email |-> {"b@x.io"},
           contact_phone |-> {NULL, Some("y")}, industry |-> {"Food"},
           description |-> {NULL, Some("y")}])

InfluencerPatches ==
  Patches([name |-> {"Bob"}, email |-> {"b@x.io"}, phone |-> {NULL, Some("y")},
           bio |-> {NULL, Some(<<"y">>)},
           portfolio_description |-> {NULL, Some(<<"y">>)}])

CampaignPatches ==
  Patches([title |-> {"Relaunch"}, description |-> {NULL, Some("y")},
           budget |-> {1234560}, target_audience |-> {NULL, Some("y")},
           objectives |-> {Some("y")}, status |-> {"active"},
           start_date |-> {NULL}, end_date |-> {Some(0)}])

\* One sponsor with a product and a campaign, and one influencer.
InitPatch ==
  /\ influencers = StoredInfluencers(<<InfluencerOf("a@x.io")>>)
  /\ accounts = EmptyTable /\ perfs = EmptyTable
  /\ sponsors = StoredSponsors(<<SponsorOf("a@x.io")>>)
  /\ products = StoredProducts(<<ProductOf(1)>>)
  /\ campaigns = StoredCampaigns(<<CampaignOf(1, 1, 500)>>)
  /\ serial = SerialOf(influencers, accounts, perfs, sponsors, products, campaigns)
  /\ Quiet(PatchCalls)

NextPatch ==
  \/ Tick
  \/ \E input \in SponsorPatches : updateSponsor_call(input)
  \/ \E r \in Slots : updateSponsor_update(r)
  \/ \E input \in InfluencerPatches : updateInfluencer_call(input)
  \/ \E r \in Slots : updateInfluencer_select(r)
  \/ \E r \in Slots : updateInfluencer_update(r)
  \/ \E input \in CampaignPatches : updateCampaign_call(input)
  \/ \E r \in Slots : updateCampaign_select(r)
  \/ \E r \in Slots : updateCampaign_update(r)

SpecPatch == InitPatch /\ [][NextPatch]_vars

(* ------------------------------ budgets ------------------------------- *)
\* Positive budgets with at most two decimals: 0.01, 0.5, 1000, 1234.56.
RoundTripBudgets == {10, 500, 1000000, 1234560}

BudgetCreateInputs == {[CampaignOf(1, 1, 500) EXCEPT !.budget = b] : b \in RoundTripBudgets}
BudgetUpdateInputs ==
  {[id |-> i, budget |-> b] : i \in InputIds, b \in RoundTripBudgets}
    \cup {[id |-> i, status |-> "active"] : i \in InputIds}
BudgetSearchInputs ==
  {[limit |-> 50, offset |-> 0], [category |-> "tech", limit |-> 50, offset |-> 0]}

\* One sponsor with one product, and no campaign yet.
InitBudget ==
  /\ influencers = EmptyTable /\ accounts = EmptyTable /\ perfs = EmptyTable
  /\ sponsors = StoredSponsors(<<SponsorOf("a@x.io")>>)
  /\ products = StoredProducts(<<ProductOf(1)>>)
  /\ campaigns = EmptyTable
  /\ serial = SerialOf(influencers, accounts, perfs, sponsors, products, campaigns)
  /\ Quiet(BudgetCalls)

NextBudget ==
  \/ Tick
  \/ \E input \in BudgetCreateInputs : createCampaign_call(input)
  \/ \E r \in Slots : createCampaign_selectSponsor(r)
  \/ \E r \in Slots : createCampaign_selectProduct(r)
  \/ \E r \in Slots : createCampaign_insert(r)
  \/ \E input \in BudgetUpdateInputs : updateCampaign_call(input)
  \/ \E r \in Slots : updateCampaign_select(r)
  \/ \E r \in Slots : updateCampaign_update(r)
  \/ getCampaigns
  \/ \E input \in BudgetSearchInputs : searchCampaigns(input)

SpecBudget == InitBudget /\ [][NextBudget]_vars

(* --------------------------- campaign search -------------------------- *)
\* Every sequence of at most n elements of S.
SeqsUpTo(S, n) == UNION {[1..k -> S] : k \in 0..n}

\* Stored budgets 0.50, 0.51 and 1234.56; bounds at, between and above them.
SearchBudgets == {500, 510, 1234560}
SearchCategories == {"tech", "food"}
SearchMinBudgets == {500, 505}
SearchMaxBudgets == {510, 1000000}
Pages == {[limit |-> 50, offset |-> 0], [limit |-> 1, offset |-> 0],
          [limit |-> 1, offset |-> 1]}

\* Campaigns of sponsor 1 on its product 1 and of sponsor 2 on its product 2.
SearchCampaignRows ==
  {[CampaignOf(s, s, 500) EXCEPT !.budget = b, !.status = st] :
     s \in 1..2, b \in SearchBudgets, st \in {"draft", "active"}}

\* searchCampaigns inputs after the schema's defaults: any subset of the
\* five filters, and a page.
SearchCampaignsInputs ==
  UNION {Fill([category |-> SearchCategories, min_budget |-> SearchMinBudgets,
               max_budget |-> SearchMaxBudgets, status |-> {"active"},
               sponsor_id |-> {1}], keys, page) :
         keys \in SUBSET {"category", "min_budget", "max_budget", "status", "sponsor_id"},
         page \in Pages}

\* Two sponsors with one product each, of any category, and up to
\* MaxStoredCampaigns campaigns.
InitCampaignRead ==
  /\ influencers = EmptyTable /\ accounts = EmptyTable /\ perfs = EmptyTable
  /\ sponsors = StoredSponsors(<<SponsorOf("a@x.io"), SponsorOf("b@x.io")>>)
  /\ \E c \in SearchCategories :
       products = StoredProducts(<<ProductOf(1), [ProductOf(2) EXCEPT !.category = c]>>)
  /\ \E rows \in SeqsUpTo(SearchCampaignRows, MaxStoredCampaigns) :
       campaigns = StoredCampaigns(rows)
  /\ serial = SerialOf(influencers, accounts, perfs, sponsors, products, campaigns)
  /\ Quiet(ReadCalls)

NextCampaignRead ==
  \/ getCampaigns
  \/ CanCall /\ \E input \in SearchCampaignsInputs : searchCampaigns(input)

SpecCampaignRead == InitCampaignRead /\ [][NextCampaignRead]_vars

(* -------------------------- influencer search ------------------------- *)
\* Texts over the characters a, b, A, B and _ and the categories asked for:
\* '', 'B' and 'a_'.
SearchTexts == {<<NULL, NULL>>, <<Some(<<"a", "b">>), NULL>>, <<NULL, Some(<<"A", "_">>)>>}
SearchInfluencerCategories == {<<>>, <<"B">>, <<"a", "_">>}
SearchPlatforms == {"instagram", "youtube"}
SearchIndicators == {<<5, Some(3500)>>, <<50, Some(1000)>>, <<50, NULL>>}

\* The i-th stored influencer has the i-th e-mail address.
SearchInfluencerRows ==
  {[i \in 1..Len(texts) |->
      [InfluencerOf(IF i = 1 THEN "a@x.io" ELSE "b@x.io") EXCEPT
         !.bio = texts[i][1], !.portfolio_description = texts[i][2]]] :
   texts \in SeqsUpTo(SearchTexts, MaxStoredInfluencers)}

SearchAccountRows(ids) ==
  {[CHOOSE x \in CreateSocialMediaAccountInputs : x.influencer_id = i
      EXCEPT !.platform = pl] : i \in ids, pl \in SearchPlatforms}

SearchIndicatorRows(ids) ==
  {[CHOOSE x \in CreatePerformanceIndicatorsInputs : x.influencer_id = i
      EXCEPT !.followers_count = v[1], !.avg_engagement_rate = v[2]] :
   i \in ids, v \in SearchIndicators}

SearchInfluencersInputs ==
  UNION {Fill([category |-> SearchInfluencerCategories, min_followers |-> {50},
               max_followers |-> {5}, platform |-> {"instagram"},
               min_engagement_rate |-> {3500}], keys, page) :
         keys \in SUBSET {"category", "min_followers", "max_followers", "platform",
                          "min_engagement_rate"},
         page \in {[limit |-> 50, offset |-> 0], [limit |-> 1, offset |-> 1]}}

\* Up to MaxStoredInfluencers influencers, with up to MaxStoredAccounts
\* accounts and MaxStoredIndicators indicator rows that belong to them.
InitInfluencerRead ==
  /\ \E rows \in SearchInfluencerRows : influencers = StoredInfluencers(rows)
  /\ \E rows \in SeqsUpTo(SearchAccountRows(DOMAIN influencers), MaxStoredAccounts) :
       accounts = StoredAccounts(rows)
  /\ \E rows \in SeqsUpTo(SearchIndicatorRows(DOMAIN influencers), MaxStoredIndicators) :
       perfs = StoredIndicators(rows)
  /\ sponsors = EmptyTable /\ products = EmptyTable /\ campaigns = EmptyTable
  /\ serial = SerialOf(influencers, accounts, perfs, sponsors, products, campaigns)
  /\ Quiet(ReadCalls)

NextInfluencerRead ==
  \/ \E id \in InputIds : getInfluencerById(id)
  \/ CanCall /\ \E input \in SearchInfluencersInputs : searchInfluencers(input)

SpecInfluencerRead == InitInfluencerRead /\ [][NextInfluencerRead]_vars

(* ------------------------------ get by id ----------------------------- *)
\* Influencers and sponsors are created, updated and fetched by id, from
\* empty tables.
NextGetById ==
  \/ Tick
  \/ \E input \in CreateInfluencerInputs : createInfluencer(input)
  \/ \E input \in CreateSponsorInputs : createSponsor(input)
  \/ \E input \in UpdateInfluencerInputs : updateInfluencer_call(input)
  \/ \E r \in Slots : updateInfluencer_select(r)
  \/ \E r \in Slots : updateInfluencer_update(r)
  \/ \E input \in UpdateSponsorInputs : updateSponsor_call(input)
  \/ \E r \in Slots : updateSponsor_update(r)
  \/ \E id \in InputIds : getInfluencerById(id)
  \/ \E id \in InputIds : getSponsorById(id)

SpecGetById == Init /\ [][NextGetById]_vars

(* ------------------------ one call after another ---------------------- *)
\* The caller awaits each call before making the next one: no two
\* requests overlap, the clock still advances whenever it likes.
NoneInFlight == \A r \in Slots : req[r] = Idle

NextSequential ==
  \/ Tick
  \/ NoneInFlight /\ \E input \in CreateSponsorInputs : createSponsor(input)
  \/ NoneInFlight /\ \E input \in CreateProductInputs : createProduct(input)
  \/ NoneInFlight /\ \E input \in CreateCampaignInputs : createCampaign_call(input)
  \/ \E r \in Slots : createCampaign_selectSponsor(r)
  \/ \E r \in Slots : createCampaign_selectProduct(r)
  \/ \E r \in Slots : createCampaign_insert(r)
  \/ NoneInFlight /\ \E input \in UpdateCampaignInputs : updateCampaign_call(input)
  \/ \E r \in Slots : updateCampaign_select(r)
  \/ \E r \in Slots : updateCampaign_update(r)
  \/ NoneInFlight /\ \E input \in UpdateSponsorInputs : updateSponsor_call(input)
  \/ \E r \in Slots : updateSponsor_update(r)
  \/ NoneInFlight /\ \E input \in CreateInfluencerInputs : createInfluencer(input)
  \/ NoneInFlight /\ \E input \in UpdateInfluencerInputs : updateInfluencer_call(input)
  \/ \E r \in Slots : updateInfluencer_select(r)
  \/ \E r \in Slots : updateInfluencer_update(r)

SpecSequential == Init /\ [][NextSequential]_vars

(* ------------------------- seeded campaign data ----------------------- *)
\* Budgets 500.00, 1000.00 and 5000.00; bounds between and above them.
SeededMinBudgets == {600000, 2000000}
SeededMaxBudgets == {1500000}

\* Two sponsors with one product each; an active campaign of 1000.00 and an
\* active one of 5000.00 for sponsor 1, a draft of 500.00 for sponsor 2.
SeededCampaigns ==
  <<[CampaignOf(1, 1, 500) EXCEPT !.budget = 1000000, !.status = "active"],
    [CampaignOf(2, 2, 500) EXCEPT !.budget = 500000, !.status = "draft"],
    [CampaignOf(1, 1, 500) EXCEPT !.budget = 5000000, !.status = "active"]>>

SeededSearchInputs ==
  UNION {Fill([category |-> {"tech"}, min_budget |-> SeededMinBudgets,
               max_budget |-> SeededMaxBudgets, status |-> {"draft", "active"},
               sponsor_id |-> {1}], keys, page) :
         keys \in SUBSET {"category", "min_budget", "max_budget", "status", "sponsor_id"},
         page \in Pages}

InitSeededCampaigns ==
  /\ influencers = EmptyTable /\ accounts = EmptyTable /\ perfs = EmptyTable
  /\ sponsors = StoredSponsors(<<SponsorOf("a@x.io"), SponsorOf("b@x.io")>>)
  /\ products = StoredProducts(<<ProductOf(1), ProductOf(2)>>)
  /\ campaigns = StoredCampaigns(SeededCampaigns)
  /\ serial = SerialOf(influencers, accounts, perfs, sponsors, products, campaigns)
  /\ Quiet(ReadCalls)

NextSeededCampaigns ==
  \/ getCampaigns
  \/ CanCall /\ \E input \in SeededSearchInputs : searchCampaigns(input)

SpecSeededCampaigns == InitSeededCampaigns /\ [][NextSeededCampaigns]_vars

(* ------------------------- pages of influencers ----------------------- *)
\* The seeded influencers: five addresses, inserted in this order.
SeededEmails == <<"i1@x.io", "i2@x.io", "i3@x.io", "i4@x.io", "i5@x.io">>
SeededInfluencers(n) ==
  [i \in 1..n |-> [name |-> "Ann", email |-> SeededEmails[i], phone |-> NULL,
                   bio |-> NULL, portfolio_description |-> NULL]]

\* searchInfluencers inputs with no filter: only limit and offset.
PageInputs == {[limit |-> l, offset |-> o] : l \in {2, 50}, o \in {0, 2, 4}}

\* Any number of the seeded influencers; the first of them with or without
\* an account and with or without indicators, all others without either.
InitPages ==
  /\ \E n \in 0..Len(SeededEmails) : influencers = StoredInfluencers(SeededInfluencers(n))
  /\ \E rows \in SeqsUpTo({x \in CreateSocialMediaAccountInputs :
                              x.influencer_id \in DOMAIN influencers \cap {1}}, 1) :
       accounts = StoredAccounts(rows)
  /\ \E rows \in SeqsUpTo({x \in CreatePerformanceIndicatorsInputs :
                              x.influencer_id \in DOMAIN influencers \cap {1}}, 1) :
       perfs = StoredIndicators(rows)
  /\ sponsors = EmptyTable /\ products = EmptyTable /\ campaigns = EmptyTable
  /\ serial = SerialOf(influencers, accounts, perfs, sponsors, products, campaigns)
  /\ Quiet(PageCalls)

NextPages ==
  CanCall /\ \E input \in PageInputs : searchInfluencers(input)

SpecPages == InitPages /\ [][NextPages]_vars

(* ----------------------------- both searches -------------------------- *)
\* Two influencers, one with a bio and one with a portfolio description,
\* and up to MaxStoredAccounts accounts and MaxStoredIndicators indicator
\* rows spread over them in every way.
InitSearchInfluencers ==
  /\ influencers = StoredInfluencers(
       <<[InfluencerOf("a@x.io") EXCEPT !.bio = Some(<<"a", "b">>),
                                        !.portfolio_description = NULL],
         [InfluencerOf("b@x.io") EXCEPT !.bio = NULL,
                                        !.portfolio_description = Some(<<"A", "_">>)]>>)
  /\ \E rows \in SeqsUpTo(SearchAccountRows(DOMAIN influencers), MaxStoredAccounts) :
       accounts = StoredAccounts(rows)
  /\ \E rows \in SeqsUpTo(SearchIndicatorRows(DOMAIN influencers), MaxStoredIndicators) :
       perfs = StoredIndicators(rows)
  /\ sponsors = EmptyTable /\ products = EmptyTable /\ campaigns = EmptyTable
  /\ serial = SerialOf(influencers, accounts, perfs, sponsors, products, campaigns)
  /\ Quiet(ReadCalls)

\* searchInfluencers inputs after the schema's defaults: any subset of the
\* five filters, and a page.
PagedInfluencersInputs ==
  UNION {Fill([category |-> SearchInfluencerCategories, min_followers |-> {50},
               max_followers |-> {5}, platform |-> {"instagram"},
               min_engagement_rate |-> {3500}], keys, page) :
         keys \in SUBSET {"category", "min_followers", "max_followers", "platform",
                          "min_engagement_rate"},
         page \in Pages}

\* Either the campaign side or the influencer side is stored.
InitSearch == InitCampaignRead \/ InitSearchInfluencers

NextSearch ==
  \/ CanCall /\ \E input \in SearchCampaignsInputs : searchCampaigns(input)
  \/ CanCall /\ \E input \in PagedInfluencersInputs : searchInfluencers(input)

SpecSearch == InitSearch /\ [][NextSearch]_vars

(* ------------------------ optional create fields ---------------------- *)
\* Create inputs in which every optional field may be omitted, null, the
\* empty string or a value.
OptionalSponsorInputs ==
  UNION {Fill([contact_phone |-> {NULL, Some(""), Some("x")},
               description |-> {NULL, Some("")}], keys,
              [company_name |-> "Acme", contact_email |-> e, industry |-> "Tech"]) :
         keys \in SUBSET {"contact_phone", "description"}, e \in Emails}

OptionalProductInputs ==
  UNION {Fill([description |-> {NULL, Some(""), Some("x")},
               target_audience |-> {NULL, Some("")}], keys,
              [sponsor_id |-> 1, name |-> "Widget", category |-> "tech"]) :
         keys \in SUBSET {"description", "target_audience"}}

OptionalInfluencerInputs ==
  UNION {Fill([phone |-> {NULL, Some(""), Some("x")},
               bio |-> {Some(<<>>), Some(<<"x">>)},
               portfolio_description |-> {NULL}], keys,
              [name |-> "Ann", email |-> e]) :
         keys \in SUBSET {"phone", "bio", "portfolio_description"}, e \in Emails}

OptionalCampaignInputs ==
  UNION {Fill([description |-> {NULL, Some(""), Some("x")},
               target_audience |-> {Some("x")}, objectives |-> {NULL},
               status |-> {"active"}, start_date |-> {Some(1)},
               end_date |-> {NULL}], keys,
              [sponsor_id |-> 1, product_id |-> 1, title |-> "Launch",
               budget |-> 1000500]) :
         keys \in SUBSET {"description", "target_audience", "objectives", "status",
                          "start_date", "end_date"}}

\* One sponsor with one product is stored, so that products and campaigns
\* can be created.
InitOptional ==
  /\ influencers = EmptyTable /\ accounts = EmptyTable /\ perfs = EmptyTable
  /\ sponsors = StoredSponsors(<<SponsorOf("a@x.io")>>)
  /\ products = StoredProducts(<<ProductOf(1)>>)
  /\ campaigns = EmptyTable
  /\ serial = SerialOf(influencers, accounts, perfs, sponsors, products, campaigns)
  /\ Quiet(OptionalCalls)

NextOptional ==
  \/ Tick
  \/ CanCall /\ \E input \in OptionalSponsorInputs : createSponsor(input)
  \/ CanCall /\ \E input \in OptionalProductInputs : createProduct(input)
  \/ CanCall /\ \E input \in OptionalInfluencerInputs : createInfluencer(input)
  \/ CanCall /\ \E input \in OptionalCampaignInputs : createCampaign_call(input)
  \/ \E r \in Slots : createCampaign_selectSponsor(r)
  \/ \E r \in Slots : createCampaign_selectProduct(r)
  \/ \E r \in Slots : createCampaign_insert(r)

SpecOptional == InitOptional /\ [][NextOptional]_vars

(* --------------------------- campaign statuses ------------------------ *)
Statuses == {"draft", "active", "paused", "completed", "cancelled"}

\* updateCampaign inputs that set the status, on the stored campaigns and
\* on an id that is not stored.
StatusInputs == {[id |-> i, status |-> t] : i \in InputIds \cup {MaxId + 1}, t \in Statuses}

\* Campaign 1 is completed and campaign 2 is cancelled.
InitStatus ==
  /\ influencers = EmptyTable /\ accounts = EmptyTable /\ perfs = EmptyTable
  /\ sponsors = StoredSponsors(<<SponsorOf("a@x.io")>>)
  /\ products = StoredProducts(<<ProductOf(1)>>)
  /\ campaigns = StoredCampaigns(
       <<[CampaignOf(1, 1, 500) EXCEPT !.status = "completed"],
         [CampaignOf(1, 1, 500) EXCEPT !.status = "cancelled"]>>)
  /\ serial = SerialOf(influencers, accounts, perfs, sponsors, products, campaigns)
  /\ Quiet(StatusCalls)

NextStatus ==
  \/ Tick
  \/ CanCall /\ \E input \in StatusInputs : updateCampaign_call(input)
  \/ \E r \in Slots : updateCampaign_select(r)
  \/ \E r \in Slots : updateCampaign_update(r)

SpecStatus == InitStatus /\ [][NextStatus]_vars

(* --------------------------- create, then read ------------------------ *)
\* Sponsors, products, campaigns and influencers are created from empty
\* tables and read back, all of them or by id.
NextCreateRead ==
  \/ Tick
  \/ \E input \in CreateSponsorInputs : createSponsor(input)
  \/ \E input \in CreateProductInputs : createProduct(input)
  \/ \E input \in CreateInfluencerInputs : createInfluencer(input)
  \/ CanCall /\ \E input \in CreateCampaignInputs : createCampaign_call(input)
  \/ \E r \in Slots : createCampaign_selectSponsor(r)
  \/ \E r \in Slots : createCampaign_selectProduct(r)
  \/ \E r \in Slots : createCampaign_insert(r)
  \/ getInfluencers
  \/ getSponsors
  \/ getProducts
  \/ getCampaigns
  \/ \E id \in InputIds : getInfluencerById(id)
  \/ \E id \in InputIds : getSponsorById(id)

SpecCreateRead == Init /\ [][NextCreateRead]_vars

(* --------------------------- cascading deletes ------------------------ *)
\* Two sponsors, each with a product and a campaign on it; sponsors,
\* products and campaigns are created and sponsors and products deleted.
InitDelete ==
  /\ influencers = EmptyTable /\ accounts = EmptyTable /\ perfs = EmptyTable
  /\ sponsors = StoredSponsors(<<SponsorOf("a@x.io"), SponsorOf("b@x.io")>>)
  /\ products = StoredProducts(<<ProductOf(1), ProductOf(2)>>)
  /\ campaigns = StoredCampaigns(<<CampaignOf(1, 1, 500), CampaignOf(2, 2, 500)>>)
  /\ serial = SerialOf(influencers, accounts, perfs, sponsors, products, campaigns)
  /\ Quiet(DeleteCalls)

NextDelete ==
  \/ \E input \in CreateProductInputs : createProduct(input)
  \/ CanCall /\ \E input \in CreateCampaignInputs : createCampaign_call(input)
  \/ \E r \in Slots : createCampaign_selectSponsor(r)
  \/ \E r \in Slots : createCampaign_selectProduct(r)
  \/ \E r \in Slots : createCampaign_insert(r)
  \/ \E id \in InputIds : deleteSponsor(id)
  \/ \E id \in 1..(MaxId + 1) : deleteProduct(id)

SpecDelete == InitDelete /\ [][NextDelete]_vars

(* ---------------------------- reads by parent ------------------------- *)
\* Two sponsors with up to MaxStoredProducts products among them, two
\* influencers with up to MaxStoredIndicators indicator rows among them;
\* the reads are made for the stored parents and for an id not stored.
InitByParent ==
  /\ influencers = StoredInfluencers(<<InfluencerOf("a@x.io"), InfluencerOf("b@x.io")>>)
  /\ accounts = EmptyTable
  /\ \E rows \in SeqsUpTo(SearchIndicatorRows(DOMAIN influencers), MaxStoredIndicators) :
       perfs = StoredIndicators(rows)
  /\ sponsors = StoredSponsors(<<SponsorOf("a@x.io"), SponsorOf("b@x.io")>>)
  /\ \E rows \in SeqsUpTo({ProductOf(s) : s \in DOMAIN sponsors}, MaxStoredProducts) :
       products = StoredProducts(rows)
  /\ campaigns = EmptyTable
  /\ serial = SerialOf(influencers, accounts, perfs, sponsors, products, campaigns)
  /\ Quiet(ReadCalls)

NextByParent ==
  \/ \E id \in 1..(MaxId + 1) : getProductsBySponsor(id)
  \/ \E id \in 1..(MaxId + 1) : getPerformanceIndicatorsByInfluencer(id)

SpecByParent == InitByParent /\ [][NextByParent]_vars

(* --------------------------- follower counts -------------------------- *)
\* createSocialMediaAccount inputs whose follower_count is omitted, null,
\* 0 or 5, for the stored influencer and for an id that is not stored.
FollowerCountInputs ==
  UNION {Fill([follower_count |-> {NULL, Some(0), Some(5)}], keys,
              [influencer_id |-> i, platform |-> "instagram", username |-> "ann",
               url |-> "https://x.io/ann"]) :
         keys \in SUBSET {"follower_count"}, i \in InputIds}

\* One influencer is stored.
InitFollowers ==
  /\ influencers = StoredInfluencers(<<InfluencerOf("a@x.io")>>)
  /\ accounts = EmptyTable /\ perfs = EmptyTable
  /\ sponsors = EmptyTable /\ products = EmptyTable /\ campaigns = EmptyTable
  /\ serial = SerialOf(influencers, accounts, perfs, sponsors, products, campaigns)
  /\ Quiet(FollowerCalls)

NextFollowers ==
  \/ Tick
  \/ \E input \in FollowerCountInputs : createSocialMediaAccount_call(input)
  \/ \E r \in Slots : createSocialMediaAccount_select(r)
  \/ \E r \in Slots : createSocialMediaAccount_insert(r)

SpecFollowers == InitFollowers /\ [][NextFollowers]_vars

(* ----------------------------- client forms --------------------------- *)
\* The create forms of InfluencerManagement, SponsorManagement and
\* CampaignManagement.  The forms of one component share its isLoading.
Forms == {"influencer", "social", "sponsor", "product", "campaign"}

ComponentOf(form) ==
  IF form \in {"influencer", "social"} THEN "InfluencerManagement"
  ELSE IF form \in {"sponsor", "product"} THEN "SponsorManagement"
  ELSE "CampaignManagement"

Components == {ComponentOf(form) : form \in Forms}

\* The entity lists the components keep, and the list whose rows the
\* product and social account dialogs are opened on.
Lists == {"influencer", "sponsor", "product", "campaign"}
ParentList(form) == IF form = "product" THEN "sponsor" ELSE "influencer"

\* The form data a component is mounted with and resets to.
BlankForm(form) ==
  IF form = "influencer"
  THEN [name |-> "", email |-> "", phone |-> NULL, bio |-> NULL,
        portfolio_description |-> NULL]
  ELSE IF form = "social"
  THEN [influencer_id |-> 0, platform |-> "instagram", username |-> "", url |-> "",
        follower_count |-> NULL]
  ELSE IF form = "sponsor"
  THEN [company_name |-> "", contact_email |-> "", contact_phone |-> NULL,
        industry |-> "", description |-> NULL]
  ELSE IF form = "product"
  THEN [sponsor_id |-> 0, name |-> "", description |-> NULL, category |-> "",
        target_audience |-> NULL]
  ELSE [sponsor_id |-> 0, product_id |-> 0, title |-> "", description |-> NULL,
        budget |-> 1000000, target_audience |-> NULL, objectives |-> NULL,
        status |-> "draft", start_date |-> NULL, end_date |-> NULL]

\* What the user types into a form: every required field filled in.  The
\* product and social account forms leave the parent id at 0 and a campaign
\* is of the stored sponsor and its product.
FilledForms(form) ==
  IF form = "influencer" THEN CreateInfluencerInputs
  ELSE IF form = "social"
  THEN {[a EXCEPT !.influencer_id = 0] : a \in CreateSocialMediaAccountInputs}
  ELSE IF form = "sponsor" THEN CreateSponsorInputs
  ELSE IF form = "product"
  THEN {[p EXCEPT !.sponsor_id = 0] : p \in CreateProductInputs}
  ELSE {c \in CreateCampaignInputs : c.sponsor_id = 1 /\ c.product_id = 1}

\* The input the form's handler hands to trpc.<create>.mutate.
MutateInput(form) ==
  IF form = "social"
  THEN [ui.formData[form] EXCEPT !.influencer_id = ui.selected[form][1].id]
  ELSE IF form = "product"
  THEN [ui.formData[form] EXCEPT !.sponsor_id = ui.selected[form][1].id]
  ELSE ui.formData[form]

ServerUnchanged == UNCHANGED <<tables, serial, now, req, last, calls>>

\* The user's gestures are counted, to bound them.
CanGesture == ui.gestures < MaxGestures

\* The create dialog is opened; the product and social account dialogs
\* are opened on a row of the list, which becomes the selected one.
openDialog(form) ==
  /\ CanGesture /\ ~ui.open[form]
  /\ IF form \in {"social", "product"}
     THEN \E k \in 1..Len(ui.list[ParentList(form)]) :
            ui' = [ui EXCEPT !.open[form] = TRUE,
                             !.selected[form] = Some(ui.list[ParentList(form)][k]),
                             !.gestures = @ + 1]
     ELSE ui' = [ui EXCEPT !.open[form] = TRUE, !.gestures = @ + 1]
  /\ ServerUnchanged

\* onOpenChange(false): the dialog is dismissed.
closeDialog(form) ==
  /\ CanGesture /\ ui.open[form]
  /\ ui' = [ui EXCEPT !.open[form] = FALSE, !.gestures = @ + 1]
  /\ ServerUnchanged

\* The onChange handlers: the user fills in the form.
editForm(form, data) ==
  /\ CanGesture /\ ui.open[form]
  /\ ui.formData[form] # data
  /\ ui' = [ui EXCEPT !.formData[form] = data, !.gestures = @ + 1]
  /\ ServerUnchanged

\* No mutation of the client is under way.
NonePending == ui.pending = NULL
PendingOf(form) == ui.pending # NULL /\ ui.pending[1].form = form

\* The mutation of the form has not reached its handler yet.
Unserved(form) == PendingOf(form) /\ calls = ui.pending[1].ticket

\* The handler of the form's mutation has answered.
Served(form) ==
  /\ PendingOf(form)
  /\ calls > ui.pending[1].ticket
  /\ \A r \in Slots : req[r] = Idle

\* The submit handler up to its await: the submit button is enabled, the
\* required fields are filled in, isLoading is set and the mutation is sent.
handleSubmit(form) ==
  /\ CanCall /\ NonePending
  /\ ui.open[form] /\ ui.formData[form] \in FilledForms(form)
  /\ ~ui.isLoading[ComponentOf(form)]
  /\ form \in {"social", "product"} => ui.selected[form] # NULL
  /\ ui' = [ui EXCEPT !.isLoading[ComponentOf(form)] = TRUE,
                      !.pending = Some([form |-> form, input |-> MutateInput(form),
                                        ticket |-> calls])]
  /\ ServerUnchanged

\* The mutation reaches its handler on the server.
mutate(form) ==
  /\ Unserved(form)
  /\ LET input == ui.pending[1].input
     IN  IF form = "influencer" THEN createInfluencer(input)
         ELSE IF form = "social" THEN createSocialMediaAccount_call(input)
         ELSE IF form = "sponsor" THEN createSponsor(input)
         ELSE IF form = "product" THEN createProduct(input)
         ELSE createCampaign_call(input)

\* The view after the try block of a submit handler has run to its end.
ViewAfterSuccess(form, response) ==
  IF form = "social"
  THEN [ui EXCEPT !.formData[form] = BlankForm(form), !.open[form] = FALSE,
                  !.reloads = @ + 1]
  ELSE IF form = "product"
  THEN [ui EXCEPT !.list[form] = Append(@, response),
                  !.formData[form] = BlankForm(form), !.open[form] = FALSE]
  ELSE [ui EXCEPT !.list[form] = Append(@, response),
                  !.formData[form] = BlankForm(form), !.open[form] = FALSE,
                  !.selectedSponsorId = IF form = "campaign" THEN NULL ELSE @,
                  !.stats = @ + 1]

\* finally: isLoading is reset and the handler is done.
Finally(view, form) ==
  [view EXCEPT !.isLoading[ComponentOf(form)] = FALSE, !.pending = NULL]

\* The mutation resolved: the rest of the try block, then finally.
handleSubmit_then(form) ==
  /\ Served(form) /\ last.result.ok
  /\ ui' = Finally(ViewAfterSuccess(form, last.result.value), form)
  /\ ServerUnchanged

\* Mutant: the catch block also dismisses the dialog.
handleSubmit_catch_dismiss(form) ==
  /\ \/ Unserved(form)
     \/ Served(form) /\ ~last.result.ok
  /\ ui' = Finally([ui EXCEPT !.open[form] = FALSE], form)
  /\ ServerUnchanged

\* The mutation was rejected, by the handler's error or before it reached
\* the handler: catch logs to the console, then finally.
handleSubmit_catch(form) ==
  /\ \/ Unserved(form)
     \/ Served(form) /\ ~last.result.ok
  /\ ui' = Finally(ui, form)
  /\ ServerUnchanged

\* loadInfluencers, called after a social account was added, resolves:
\* the list is replaced by what getInfluencers answers.
loadInfluencers_then ==
  /\ ui.reloads > 0
  /\ \E o \in Orders(Rows(influencers)) :
       ui' = [ui EXCEPT !.list["influencer"] = o, !.reloads = @ - 1]
  /\ ServerUnchanged

\* The three components are mounted and their lists are loaded.
Mounted ==
  [mounted |-> TRUE,
   list |-> [l \in Lists |->
              IF l = "influencer" THEN [i \in DOMAIN influencers |-> influencers[i]]
              ELSE IF l = "sponsor" THEN [i \in DOMAIN sponsors |-> sponsors[i]]
              ELSE IF l = "product" THEN [i \in DOMAIN products |-> products[i]]
              ELSE [i \in DOMAIN campaigns |-> CampaignOut(campaigns[i])]],
   formData |-> [form \in Forms |-> BlankForm(form)],
   open |-> [form \in Forms |-> FALSE],
   isLoading |-> [c \in Components |-> FALSE],
   selected |-> [form \in {"social", "product"} |-> NULL],
   selectedSponsorId |-> NULL,
   stats |-> 0, reloads |-> 0, pending |-> NULL, gestures |-> 0]

\* One influencer and one sponsor with a product are stored.
InitClient ==
  /\ influencers = StoredInfluencers(<<InfluencerOf("a@x.io")>>)
  /\ accounts = EmptyTable /\ perfs = EmptyTable
  /\ sponsors = StoredSponsors(<<SponsorOf("a@x.io")>>)
  /\ products = StoredProducts(<<ProductOf(1)>>)
  /\ campaigns = EmptyTable
  /\ serial = SerialOf(influencers, accounts, perfs, sponsors, products, campaigns)
  /\ now = 0
  /\ req = [r \in Slots |-> Idle]
  /\ last = [op |-> "none"]
  /\ calls = MaxCalls - ClientCalls
  /\ ui = Mounted

NextClient ==
  \/ \E form \in Forms : openDialog(form)
  \/ \E form \in Forms : closeDialog(form)
  \/ \E form \in Forms : \E data \in FilledForms(form) : editForm(form, data)
  \/ \E form \in Forms : handleSubmit(form)
  \/ \E form \in Forms : mutate(form)
  \/ \E r \in Slots : createSocialMediaAccount_select(r)
  \/ \E r \in Slots : createSocialMediaAccount_insert(r)
  \/ \E r \in Slots : createCampaign_selectSponsor(r)
  \/ \E r \in Slots : createCampaign_selectProduct(r)
  \/ \E r \in Slots : createCampaign_insert(r)
  \/ \E form \in Forms : handleSubmit_then(form)
  \/ \E form \in Forms : handleSubmit_catch(form)
  \/ loadInfluencers_then

SpecClient == InitClient /\ [][NextClient]_vars

(* ======================== referential checks ========================== *)
\* The request in slot r returns or throws in this step.
Returns(r, op) == req[r] # Idle /\ req[r].op = op /\ req'[r] = Idle

\* What createCampaign must answer for an input against the stored rows:
\* the first failing check, or nothing when all three pass.
FirstFailure(input) ==
  IF WhereId(sponsors, input.sponsor_id) = {}
  THEN Some(NotFound("Sponsor", input.sponsor_id))
  ELSE IF WhereId(products, input.product_id) = {}
  THEN Some(NotFound("Product", input.product_id))
  ELSE IF products[input.product_id].sponsor_id # input.sponsor_id
  THEN Some(NotOwned(input.product_id, input.sponsor_id))
  ELSE NULL

\* C1: createCampaign reports the first referential check that fails, in the
\* order sponsor exists, product exists, product belongs to the sponsor, and
\* inserts a campaign only when all three pass.
C1_FirstFailingCheck ==
  [][\A r \in Slots : Returns(r, "createCampaign") =>
       LET expected == FirstFailure(req[r].input)
       IN  /\ expected # NULL => /\ last'.result = expected[1]
                                 /\ campaigns' = campaigns
           /\ expected = NULL => /\ last'.result.ok
                                 /\ DOMAIN campaigns' # DOMAIN campaigns]_vars

\* C1 witness: a request with an existing sponsor and an existing product of
\* another sponsor was answered with the third error.
C1_Witness ==
  /\ last.op = "createCampaign"
  /\ last.result = NotOwned(last.input.product_id, last.input.sponsor_id)

\* C2: every stored campaign's product exists and is owned by the campaign's
\* sponsor, in every reachable state, and no step changes the sponsor_id or
\* the product_id of a stored campaign.
C2_Owned ==
  \A c \in Rows(campaigns) :
    /\ WhereId(products, c.product_id) # {}
    /\ products[c.product_id].sponsor_id = c.sponsor_id
C2_KeysKept ==
  \A id \in DOMAIN campaigns :
    /\ id \in DOMAIN campaigns'
    /\ campaigns'[id].sponsor_id = campaigns[id].sponsor_id
    /\ campaigns'[id].product_id = campaigns[id].product_id
C2_ProductOwnedBySponsor == [](C2_Owned) /\ [][C2_KeysKept]_vars

\* C2 witness: a stored campaign that updateCampaign has just updated.
C2_Witness ==
  /\ last.op = "updateCampaign" /\ last.result.ok
  /\ last.input.id \in DOMAIN campaigns

\* The handler's own error for a missing or mismatched parent, or NULL.
ParentError(q) ==
  IF q.op = "createCampaign" THEN FirstFailure(q.input)
  ELSE IF WhereId(influencers, q.input.influencer_id) # {} THEN NULL
  ELSE IF q.op = "createSocialMediaAccount"
  THEN Some(AccountParentError(q.input.influencer_id))
  ELSE Some(IndicatorParentError(q.input.influencer_id))

DependentCreates ==
  {"createCampaign", "createSocialMediaAccount", "createPerformanceIndicators"}

\* C3: a dependent create whose parent is missing (or, for a campaign,
\* mismatched) throws the handler's descriptive error and writes nothing:
\* the only step of such a request that changes a table is its successful
\* return.
C3_NoWriteOnMissingParent ==
  [][\A r \in Slots :
       LET q == IF req[r] # Idle THEN req[r] ELSE req'[r]
       IN  (req'[r] # req[r] /\ q.op \in DependentCreates) =>
             /\ (req[r] # Idle /\ req'[r] = Idle /\ ParentError(q) # NULL) =>
                  /\ last'.result = ParentError(q)[1]
                  /\ tables' = tables
                  /\ serial' = serial
             /\ tables' # tables => (req[r] # Idle /\ req'[r] = Idle /\ last'.result.ok)]_vars

\* C3 witness: performance indicators for an unknown influencer were refused
\* while another influencer is stored.
C3_Witness ==
  /\ last.op = "createPerformanceIndicators"
  /\ last.result = IndicatorParentError(last.input.influencer_id)
  /\ DOMAIN influencers # {}

Updates == {"updateInfluencer", "updateSponsor", "updateCampaign"}
EntityOf(op) == IF op = "updateInfluencer" THEN "Influencer"
                ELSE IF op = "updateSponsor" THEN "Sponsor" ELSE "Campaign"
TableOf(op) == IF op = "updateInfluencer" THEN influencers
               ELSE IF op = "updateSponsor" THEN sponsors ELSE campaigns

\* C4: an update whose id matches no row throws '<Entity> with id N not
\* found' and leaves every row of every table, updated_at included, as it was.
C4_UpdateNotFound ==
  [][\A r \in Slots :
       (/\ req[r] # Idle /\ req'[r] # req[r]
        /\ req[r].op \in Updates
        /\ WhereId(TableOf(req[r].op), req[r].input.id) = {}) =>
         /\ req'[r] = Idle
         /\ last'.result = NotFound(EntityOf(req[r].op), req[r].input.id)
         /\ tables' = tables]_vars

\* C4 witness: updateCampaign on an unknown id was refused while a campaign
\* is stored.
C4_Witness ==
  /\ last.op = "updateCampaign"
  /\ last.result = NotFound("Campaign", last.input.id)
  /\ DOMAIN campaigns # {}

(* ========================== partial updates =========================== *)
\* What the column k holds after an UPDATE that sets it from the input.
ColumnOf(input, k) ==
  IF k = "budget" THEN Text(NumericScale2(NumToString(input.budget))) ELSE input[k]

\* The table of an update in the next state.
TableAfter(op) == IF op = "updateInfluencer" THEN influencers'
                  ELSE IF op = "updateSponsor" THEN sponsors' ELSE campaigns'

\* The UPDATE of request r went through in this step.
UpdateApplied(r) ==
  /\ req[r] # Idle /\ req[r].op \in Updates /\ req[r].pc = "update"
  /\ req'[r] = Idle
  /\ last'.result.ok

\* C5: a successful updateInfluencer, updateSponsor or updateCampaign
\* changes exactly the fields present in the input plus updated_at: every
\* supplied field takes the supplied value (null clears a nullable column),
\* every field absent from the input keeps the value it had, updated_at is
\* the time the handler read, and no other row of any table changes; with
\* only the id supplied nothing but updated_at changes.
C5_PartialUpdate ==
  [][\A r \in Slots : UpdateApplied(r) =>
       LET input == req[r].input
           old == TableOf(req[r].op)[input.id]
           new == TableAfter(req[r].op)[input.id]
           given == DOMAIN input \ {"id"}
       IN  /\ \A k \in given : new[k] = ColumnOf(input, k)
           /\ \A k \in DOMAIN old \ (given \cup {"updated_at"}) : new[k] = old[k]
           /\ new.updated_at = req[r].ts
           /\ DOMAIN new = DOMAIN old
           /\ given = {} =>
                \A k \in DOMAIN old \ {"updated_at"} : new[k] = old[k]
           /\ \A i \in DOMAIN TableOf(req[r].op) \ {input.id} :
                TableAfter(req[r].op)[i] = TableOf(req[r].op)[i]
           /\ DOMAIN TableAfter(req[r].op) = DOMAIN TableOf(req[r].op)
           /\ req[r].op # "updateInfluencer" => influencers' = influencers
           /\ req[r].op # "updateSponsor" => sponsors' = sponsors
           /\ req[r].op # "updateCampaign" => campaigns' = campaigns
           /\ UNCHANGED <<accounts, perfs, products>>]_vars

\* C5 witness: updateSponsor cleared description with an explicit null at
\* time 1 and left contact_phone, which the input did not carry, as stored.
C5_Witness ==
  /\ last.op = "updateSponsor"
  /\ last.result.ok
  /\ DOMAIN last.input = {"id", "description"}
  /\ last.input.description = NULL
  /\ sponsors[last.input.id].description = NULL
  /\ sponsors[last.input.id].contact_phone = Some("x")
  /\ sponsors[last.input.id].updated_at = 1
  /\ sponsors[last.input.id].created_at = 0

(* ========================= budget round trip ========================== *)
\* A handler answers in this step.
Answered(op) == last' # last /\ last'.op = op /\ last'.result.ok

\* The returned campaign carries, as a number, a budget b whose numeric(10, 2)
\* text is what the row of the same id holds.
BudgetOfRow(returned, table) ==
  /\ returned.id \in DOMAIN table
  /\ \E b \in RoundTripBudgets :
       /\ table[returned.id].budget = Text(NumericScale2(NumToString(b)))
       /\ returned.budget = Num(b)

\* C6: a budget with at most two decimals comes back as the number that was
\* written, never as the stored text: createCampaign returns the input's
\* budget, updateCampaign the input's budget or, when the input carries
\* none, the budget the row was last given, and getCampaigns and
\* searchCampaigns (with and without the category join) the budget of each
\* returned row.
C6_BudgetRoundTrip ==
  [][/\ Answered("createCampaign") =>
          /\ last'.result.value.budget = Num(last'.input.budget)
          /\ BudgetOfRow(last'.result.value, campaigns')
     /\ Answered("updateCampaign") =>
          /\ Has(last'.input, "budget") =>
               last'.result.value.budget = Num(last'.input.budget)
          /\ ~Has(last'.input, "budget") =>
               /\ BudgetOfRow(last'.result.value, campaigns)
               /\ campaigns'[last'.input.id].budget = campaigns[last'.input.id].budget
          /\ BudgetOfRow(last'.result.value, campaigns')
     /\ (Answered("getCampaigns") \/ Answered("searchCampaigns")) =>
          \A i \in 1..Len(last'.result.value) :
            BudgetOfRow(last'.result.value[i], campaigns)]_vars

\* C6 witness: searchCampaigns with the category join returned the campaign
\* created with 1234.56 and later updated without a budget, as 1234.56.
C6_Witness ==
  /\ last.op = "searchCampaigns"
  /\ Has(last.input, "category")
  /\ last.result.ok
  /\ Len(last.result.value) = 1
  /\ last.result.value[1].budget = Num(1234560)
  /\ last.result.value[1].status = "active"
  /\ campaigns[1].budget = Text(<<"1", "2", "3", "4", ".", "5", "6">>)

(* ========================== campaign search =========================== *)
Max(a, b) == IF a > b THEN a ELSE b
Range(seq) == {seq[i] : i \in 1..Len(seq)}

\* The campaign satisfies every supplied filter of the input.
SatisfiesAll(input, c) ==
  /\ Has(input, "category") => products[c.product_id].category = input.category
  /\ Has(input, "min_budget") => ParseDecimal(c.budget.text) >= input.min_budget
  /\ Has(input, "max_budget") => ParseDecimal(c.budget.text) <= input.max_budget
  /\ Has(input, "status") => c.status = input.status
  /\ Has(input, "sponsor_id") => c.sponsor_id = input.sponsor_id

\* C7: searchCampaigns answers with campaigns that satisfy every supplied
\* filter (product category equal, min_budget <= budget <= max_budget
\* compared as numbers, status equal, sponsor_id equal), each at most once,
\* and with all of them up to the page: limit rows after skipping offset, so
\* that a page that holds them all is exactly the set of satisfying campaigns.
C7_ExactlyTheMatches ==
  last.op = "searchCampaigns" =>
    LET input == last.input
        got == last.result.value
        want == {CampaignOut(c) : c \in {c \in Rows(campaigns) : SatisfiesAll(input, c)}}
    IN  /\ last.result.ok
        /\ Range(got) \subseteq want
        /\ Cardinality(Range(got)) = Len(got)
        /\ Len(got) = Min(input.limit, Max(0, Cardinality(want) - input.offset))
        /\ (input.offset = 0 /\ input.limit >= Cardinality(want)) => Range(got) = want

\* C7 witness: with status and min_budget 0.505 supplied, of two active
\* campaigns the one at 0.50 was left out and the one at 0.51 returned.
C7_Witness ==
  /\ last.op = "searchCampaigns"
  /\ DOMAIN last.input = {"status", "min_budget", "limit", "offset"}
  /\ last.input.min_budget = 505 /\ last.input.limit = 50
  /\ Len(last.result.value) = 1
  /\ last.result.value[1].budget = Num(510)
  /\ \E c \in Rows(campaigns) : c.status = "active" /\ c.budget = Text(<<"0", ".", "5", "0">>)

(* ========================= influencer search ========================== *)
\* The text of the column contains the category, letter case aside.
Contains(column, category) ==
  /\ column # NULL
  /\ \E k \in 0..(Len(column[1]) - Len(category)) :
       Lower(SubSeq(column[1], k + 1, k + Len(category))) = Lower(category)

\* The influencer satisfies every supplied filter of the input: one of its
\* indicator rows meets the follower and engagement bounds, one of its
\* accounts is on the platform, and its bio or portfolio_description
\* contains the category.  An empty category asks for nothing.
SatisfiesFilters(input, i) ==
  /\ (Has(input, "min_followers") \/ Has(input, "max_followers")
        \/ Has(input, "min_engagement_rate")) =>
       \E p \in Rows(perfs) :
         /\ p.influencer_id = i.id
         /\ Has(input, "min_followers") => p.followers_count >= input.min_followers
         /\ Has(input, "max_followers") => p.followers_count <= input.max_followers
         /\ Has(input, "min_engagement_rate") =>
              /\ p.avg_engagement_rate # NULL
              /\ ParseDecimal(p.avg_engagement_rate[1].text) >= input.min_engagement_rate
  /\ Has(input, "platform") =>
       \E a \in Rows(accounts) : a.influencer_id = i.id /\ a.platform = input.platform
  /\ (Has(input, "category") /\ input.category # <<>>) =>
       Contains(i.bio, input.category) \/ Contains(i.portfolio_description, input.category)

HasWildcard(category) ==
  \E k \in 1..Len(category) : category[k] \in {"%", "_", "\\"}

\* C8 as stated: every influencer searchInfluencers returns satisfies all
\* supplied filters (follower and engagement bounds on one indicator row,
\* an account on the platform, bio or portfolio_description containing the
\* category case-insensitively).
C8_OnlyMatching ==
  last.op = "searchInfluencers" =>
    \A k \in 1..Len(last.result.value) :
      /\ last.result.value[k] \in Rows(influencers)
      /\ SatisfiesFilters(last.input, last.result.value[k])

\* C8 for categories without %, _ and backslash: there every returned
\* influencer satisfies all supplied filters.
C8_OnlyMatchingPlainCategory ==
  (/\ last.op = "searchInfluencers"
   /\ Has(last.input, "category") => ~HasWildcard(last.input.category)) =>
    \A k \in 1..Len(last.result.value) :
      /\ last.result.value[k] \in Rows(influencers)
      /\ SatisfiesFilters(last.input, last.result.value[k])

\* C8 witness: a search by platform, category 'B' and min_followers
\* returned an influencer while another stored influencer was left out.
C8_Witness ==
  /\ last.op = "searchInfluencers"
  /\ {"category", "platform", "min_followers"} \subseteq DOMAIN last.input
  /\ last.input.category = <<"B">> /\ last.input.offset = 0
  /\ Len(last.result.value) = 1
  /\ Cardinality(DOMAIN influencers) = 2

(* ============================= get by id ============================== *)
\* C9: getInfluencerById and getSponsorById answer null, without an error,
\* when no row has the id, and otherwise the row of that id as it is stored
\* at that moment and no other; they write nothing.
C9_GetById ==
  [][(last' # last /\ last'.op \in {"getInfluencerById", "getSponsorById"}) =>
       LET table == IF last'.op = "getInfluencerById" THEN influencers ELSE sponsors
           id == last'.input.id
       IN  /\ last'.result.ok
           /\ id \notin DOMAIN table => last'.result.value = NULL
           /\ id \in DOMAIN table =>
                /\ last'.result.value = Some(table[id])
                /\ last'.result.value[1].id = id
           /\ tables' = tables]_vars

\* C9 witness: getSponsorById answered null for an id no sponsor has while
\* another sponsor is stored.
C9_Witness ==
  /\ last.op = "getSponsorById"
  /\ last.result = Ok(NULL)
  /\ last.input.id \notin DOMAIN sponsors
  /\ DOMAIN sponsors # {}

(* ============================= timestamps ============================= *)
\* The tables whose rows carry updated_at.
Stamped == <<influencers, sponsors, products, campaigns>>

\* C11: created_at <= updated_at in every row when it is created, and each
\* successful updateInfluencer, updateSponsor or updateCampaign leaves
\* updated_at strictly greater than the value the row held before the call
\* (calls are made one after another, so that value is the one the UPDATE
\* finds).
C11_UpdatedAtStrictlyIncreases ==
  [][/\ \A t \in 1..Len(Stamped) : \A i \in DOMAIN Stamped'[t] \ DOMAIN Stamped[t] :
          Stamped'[t][i].created_at <= Stamped'[t][i].updated_at
     /\ \A r \in Slots : UpdateApplied(r) =>
          TableAfter(req[r].op)[req[r].input.id].updated_at
            > TableOf(req[r].op)[req[r].input.id].updated_at]_vars

\* C11 witness: a sponsor created at time 0 was updated by a call that read
\* the clock before it advanced, and updated_at is still 0.
C11_Witness ==
  /\ last.op = "updateSponsor"
  /\ last.result.ok
  /\ now = 0
  /\ sponsors[last.input.id].created_at = 0
  /\ sponsors[last.input.id].updated_at = 0

(* ========================= filter conjunction ========================= *)
\* searchCampaigns({status: 'active', min_budget: 600}) after the schema's
\* defaults has answered.
ActiveFrom600 ==
  /\ last.op = "searchCampaigns"
  /\ last.input = [status |-> "active", min_budget |-> 600000,
                   limit |-> 50, offset |-> 0]

\* The budgets of the campaigns an answer holds.
BudgetsOf(result) == {result.value[i].budget : i \in 1..Len(result.value)}

\* C12 as stated: over campaigns of 500 (draft), 1000 (active) and 5000
\* (active), searchCampaigns({status: 'active', min_budget: 600}) returns
\* exactly the 5000-budget campaign.
C12_OnlyTheLargest ==
  ActiveFrom600 =>
    /\ last.result.ok
    /\ Len(last.result.value) = 1
    /\ BudgetsOf(last.result) = {Num(5000000)}

\* C12: over campaigns of 500 (draft), 1000 (active) and 5000 (active),
\* searchCampaigns({status: 'active', min_budget: 600}) returns exactly the
\* two active campaigns of 1000 and 5000, in either order, and not the draft.
C12_BothActiveFrom600 ==
  ActiveFrom600 =>
    /\ last.result.ok
    /\ Len(last.result.value) = 2
    /\ BudgetsOf(last.result) = {Num(1000000), Num(5000000)}
    /\ \A i \in 1..2 : last.result.value[i].status = "active"

\* C12 witness: that search has answered over the three seeded campaigns.
C12_Witness ==
  /\ ActiveFrom600
  /\ last.result.ok
  /\ {<<c.budget, c.status>> : c \in Rows(campaigns)}
       = {<<Text(<<"5", "0", "0", ".", "0", "0">>), "draft">>,
          <<Text(<<"1", "0", "0", "0", ".", "0", "0">>), "active">>,
          <<Text(<<"5", "0", "0", "0", ".", "0", "0">>), "active">>}

(* ============================= pagination ============================= *)
\* The ids of the rows an answer holds.
IdsOf(result) == {result.value[i].id : i \in 1..Len(result.value)}

\* C13: over 5 seeded influencers, searchInfluencers with limit 2, offset 0
\* followed directly by searchInfluencers with limit 2, offset 2 returns two
\* disjoint sets of ids that together cover all but one record.
C13_PagesDisjoint ==
  [][(/\ Cardinality(DOMAIN influencers) = 5
      /\ last.op = "searchInfluencers"
      /\ last.input = [limit |-> 2, offset |-> 0]
      /\ calls' = calls + 1
      /\ last'.op = "searchInfluencers"
      /\ last'.input = [limit |-> 2, offset |-> 2]) =>
       /\ IdsOf(last.result) \cap IdsOf(last'.result) = {}
       /\ Cardinality(IdsOf(last.result) \cup IdsOf(last'.result)) = 4]_vars

\* C13 witness: the second page of two was answered, after a first call,
\* over five influencers.
C13_Witness ==
  /\ Cardinality(DOMAIN influencers) = 5
  /\ calls = MaxCalls - PageCalls + 2
  /\ last.op = "searchInfluencers"
  /\ last.input = [limit |-> 2, offset |-> 2]
  /\ Len(last.result.value) = 2

\* C14: searchInfluencers with no filter (only limit and offset) joins
\* nothing: over N stored influencers, with or without accounts and
\* indicators, it returns min(limit, max(0, N - offset)) distinct stored
\* influencers.
C14_NoFilterNoJoin ==
  (last.op = "searchInfluencers" /\ DOMAIN last.input = {"limit", "offset"}) =>
    LET got == last.result.value
        N == Cardinality(DOMAIN influencers)
    IN  /\ last.result.ok
        /\ Len(got) = Min(last.input.limit, Max(0, N - last.input.offset))
        /\ Range(got) \subseteq Rows(influencers)
        /\ Cardinality(Range(got)) = Len(got)

\* C14 witness: all five influencers were returned although only the
\* first has an account and no one has indicators.
C14_Witness ==
  /\ last.op = "searchInfluencers"
  /\ last.input = [limit |-> 50, offset |-> 0]
  /\ Len(last.result.value) = 5
  /\ {a.influencer_id : a \in Rows(accounts)} = {1}
  /\ perfs = EmptyTable

(* ========================== one row for each id ======================= *)
Searches == {"searchInfluencers", "searchCampaigns"}

\* C15: no influencer id appears more than once in a searchInfluencers
\* result, for every filter combination and however many accounts and
\* indicator rows of the influencer match; no campaign id appears more than
\* once in a searchCampaigns result.
C15_NoDuplicateIds ==
  last.op \in Searches =>
    /\ last.result.ok
    /\ \A i, j \in 1..Len(last.result.value) :
         last.result.value[i].id = last.result.value[j].id => i = j

\* C15 witness: influencer 1 has two instagram accounts and two indicator
\* rows of 50 followers, all of which pass the platform and min_followers
\* filters, and the answer holds it once.
C15_Witness ==
  /\ last.op = "searchInfluencers"
  /\ last.input = [platform |-> "instagram", min_followers |-> 50,
                   limit |-> 50, offset |-> 0]
  /\ Cardinality({a \in DOMAIN accounts : accounts[a].influencer_id = 1
                                          /\ accounts[a].platform = "instagram"}) = 2
  /\ Cardinality({p \in DOMAIN perfs : perfs[p].influencer_id = 1
                                       /\ perfs[p].followers_count = 50}) = 2
  /\ Len(last.result.value) = 1
  /\ last.result.value[1].id = 1

(* ======================= limit and offset after filters =============== *)
\* The number of rows that match the filters of the search last answered:
\* campaigns that satisfy every supplied filter, influencers that pass the
\* WHERE clause with one of their accounts and indicator rows.
MatchCount ==
  IF last.op = "searchCampaigns"
  THEN Cardinality({c \in Rows(campaigns) : SatisfiesAll(last.input, c)})
  ELSE Cardinality(InfluencerMatches(last.input))

\* C16: searchCampaigns and searchInfluencers apply limit and offset after
\* filtering: with M rows matching the filters the result has exactly
\* min(limit, max(0, M - offset)) rows, never more than limit, and none
\* when offset >= M.
C16_PageOfTheMatches ==
  last.op \in Searches =>
    LET got == last.result.value
        M == MatchCount
    IN  /\ last.result.ok
        /\ Len(got) = Min(last.input.limit, Max(0, M - last.input.offset))
        /\ Len(got) <= last.input.limit
        /\ last.input.offset >= M => Len(got) = 0

\* C16 witness: two campaigns are stored, one is active, and the second
\* page of one row of the active campaigns is empty.
C16_Witness ==
  /\ last.op = "searchCampaigns"
  /\ last.input = [status |-> "active", limit |-> 1, offset |-> 1]
  /\ Cardinality(DOMAIN campaigns) = 2
  /\ Cardinality({c \in Rows(campaigns) : c.status = "active"}) = 1
  /\ last.result.value = <<>>

(* ========================= omitted optional fields ==================== *)
Creates == {"createInfluencer", "createSponsor", "createProduct", "createCampaign"}

\* The optional fields of each create input.
OptionalOf(op) ==
  IF op = "createInfluencer" THEN {"phone", "bio", "portfolio_description"}
  ELSE IF op = "createSponsor" THEN {"contact_phone", "description"}
  ELSE IF op = "createProduct" THEN {"description", "target_audience"}
  ELSE {"description", "target_audience", "objectives", "start_date", "end_date"}

\* The empty string as the field holds it.
EmptyTexts == {Some(""), Some(<<>>)}
DateKeys == {"start_date", "end_date"}

\* The table a create writes to.
CreatedIn(op) ==
  IF op = "createInfluencer" THEN influencers
  ELSE IF op = "createSponsor" THEN sponsors
  ELSE IF op = "createProduct" THEN products ELSE campaigns

\* C17: a successful create returns and stores null for every optional
\* field its input omits (phone, bio, portfolio_description of an
\* influencer; contact_phone, description of a sponsor; description,
\* target_audience of a product; description, target_audience, objectives,
\* start_date, end_date of a campaign), never leaves the field out and
\* never holds an empty string; a campaign created without a status is a
\* draft.
C17_OmittedIsNull ==
  (last.op \in Creates /\ last.result.ok) =>
    LET input == last.input
        out == last.result.value
        row == CreatedIn(last.op)[out.id]
    IN  /\ \A k \in OptionalOf(last.op) :
             /\ Has(out, k) /\ Has(row, k)
             /\ ~Has(input, k) => (out[k] = NULL /\ row[k] = NULL)
             /\ k \notin DateKeys => (out[k] \notin EmptyTexts /\ row[k] \notin EmptyTexts)
        /\ (last.op = "createCampaign" /\ ~Has(input, "status")) =>
             (out.status = "draft" /\ row.status = "draft")

\* C17 witness: a campaign was created from the four required fields
\* alone.
C17_Witness ==
  /\ last.op = "createCampaign"
  /\ last.result.ok
  /\ DOMAIN last.input = {"sponsor_id", "product_id", "title", "budget"}
  /\ last.result.value.description = NULL
  /\ last.result.value.end_date = NULL
  /\ last.result.value.status = "draft"

(* ========================== status transitions ======================== *)
\* C18: campaign status has no enforced transition graph: updateCampaign
\* setting status t on an existing campaign, whatever status s it is in
\* (completed -> draft and cancelled -> active included), passes the
\* existence check, succeeds, returns status t and leaves the campaign in
\* status t.
C18_AnyStatusTransition ==
  [][\A r \in Slots :
       (/\ req[r] # Idle /\ req'[r] # req[r]
        /\ req[r].op = "updateCampaign"
        /\ Has(req[r].input, "status")
        /\ WhereId(campaigns, req[r].input.id) # {}) =>
         IF req[r].pc = "select"
         THEN req'[r] # Idle /\ req'[r].pc = "update"
         ELSE /\ req'[r] = Idle
              /\ last'.result.ok
              /\ last'.result.value.status = req[r].input.status
              /\ campaigns'[req[r].input.id].status = req[r].input.status]_vars

\* C18 witness: the one call made so far set the completed campaign 1 back
\* to draft.
C18_Witness ==
  /\ calls = MaxCalls - StatusCalls + 1
  /\ NoneInFlight
  /\ last.op = "updateCampaign"
  /\ last.input = [id |-> 1, status |-> "draft"]
  /\ last.result.ok
  /\ campaigns[1].status = "draft"
  /\ campaigns[2].status = "cancelled"

(* ========================== create, then read ========================= *)
\* The table a create writes to, in the next state.
CreatedInAfter(op) ==
  IF op = "createInfluencer" THEN influencers'
  ELSE IF op = "createSponsor" THEN sponsors'
  ELSE IF op = "createProduct" THEN products' ELSE campaigns'

\* What a handler returns for a stored row of the entity of op.
OutOf(op, row) == IF op = "createCampaign" THEN CampaignOut(row) ELSE row

GetAllOf(op) ==
  IF op = "createInfluencer" THEN "getInfluencers"
  ELSE IF op = "createSponsor" THEN "getSponsors"
  ELSE IF op = "createProduct" THEN "getProducts" ELSE "getCampaigns"

\* C19: a successful create persists exactly one new row and returns it:
\* the returned id is the id of no row stored before, the table gains that
\* one row and keeps every other row as it was, no other table changes; a
\* getAll of that entity answered next contains the returned row, and
\* getInfluencerById or getSponsorById with the returned id answered next
\* yields the field values the create returned.
C19_CreateThenRead ==
  [][/\ (last' # last /\ last'.op \in Creates /\ last'.result.ok) =>
          LET op == last'.op
              out == last'.result.value
          IN  /\ out.id \notin DOMAIN CreatedIn(op)
              /\ DOMAIN CreatedInAfter(op) = DOMAIN CreatedIn(op) \cup {out.id}
              /\ \A i \in DOMAIN CreatedIn(op) : CreatedInAfter(op)[i] = CreatedIn(op)[i]
              /\ OutOf(op, CreatedInAfter(op)[out.id]) = out
              /\ op # "createInfluencer" => influencers' = influencers
              /\ op # "createSponsor" => sponsors' = sponsors
              /\ op # "createProduct" => products' = products
              /\ op # "createCampaign" => campaigns' = campaigns
              /\ UNCHANGED <<accounts, perfs>>
     /\ (last.op \in Creates /\ last.result.ok /\ calls' # calls
         /\ last'.op = GetAllOf(last.op)) =>
          /\ last'.result.ok
          /\ last.result.value \in Range(last'.result.value)
          /\ Len(last'.result.value) = Cardinality(DOMAIN CreatedIn(last.op))
     /\ (last.op \in {"createInfluencer", "createSponsor"} /\ last.result.ok
         /\ calls' # calls
         /\ last'.op = (IF last.op = "createInfluencer" THEN "getInfluencerById"
                        ELSE "getSponsorById")
         /\ last'.input.id = last.result.value.id) =>
          last'.result = Ok(Some(last.result.value))]_vars

\* C19 witness: a second sponsor was created under id 2 beside sponsor 1,
\* while a product is stored.
C19_Witness ==
  /\ last.op = "createSponsor"
  /\ last.result.ok
  /\ last.result.value.id = 2
  /\ DOMAIN sponsors = {1, 2}
  /\ sponsors[2] = last.result.value
  /\ DOMAIN products # {}

(* ========================= referential integrity ====================== *)
\* Every foreign key of every stored row names a stored row.
C20_Referential ==
  /\ \A p \in Rows(products) : p.sponsor_id \in DOMAIN sponsors
  /\ \A c \in Rows(campaigns) :
       c.sponsor_id \in DOMAIN sponsors /\ c.product_id \in DOMAIN products
  /\ \A a \in Rows(accounts) : a.influencer_id \in DOMAIN influencers
  /\ \A p \in Rows(perfs) : p.influencer_id \in DOMAIN influencers

\* createProduct answered in this step for a sponsor_id that matches no
\* sponsor.
C20_OrphanProduct ==
  /\ calls' # calls /\ req' = req /\ last'.op = "createProduct"
  /\ last'.input.sponsor_id \notin DOMAIN sponsors

\* C20: referential integrity holds in every reachable state: every product
\* references a stored sponsor, every campaign a stored sponsor and product,
\* every social-media account and indicator row a stored influencer; and
\* createProduct with a sponsor_id that matches no sponsor is rejected with
\* a foreign-key violation and stores no product.
C20_ReferentialIntegrity ==
  /\ []C20_Referential
  /\ [][C20_OrphanProduct =>
          /\ last'.result = ForeignKeyViolation("products_sponsor_id_sponsors_id_fk")
          /\ products' = products]_vars

\* C20 witness: with sponsor 1 stored, a product for sponsor 2 was refused
\* and no product of sponsor 2 is stored.
C20_Witness ==
  /\ last.op = "createProduct"
  /\ last.input.sponsor_id = 2
  /\ last.result = ForeignKeyViolation("products_sponsor_id_sponsors_id_fk")
  /\ DOMAIN sponsors = {1}
  /\ \A p \in Rows(products) : p.sponsor_id = 1

(* ============================ cascading deletes ======================= *)
\* A delete of the given kind was executed in this step.
Deleted(op) == calls' # calls /\ last'.op = op /\ last'.result.ok

\* C21: deleting a sponsor at the store removes every product and every
\* campaign whose sponsor_id is that sponsor, and deleting a product removes
\* every campaign with that product_id: afterwards no product or campaign
\* references the removed row (or a product removed with it), and the
\* sponsors, products and campaigns of other sponsors, and every other
\* table, are as they were.
C21_CascadeDelete ==
  [][/\ Deleted("deleteSponsor") =>
          LET id == last'.input.id
          IN  /\ id \notin DOMAIN sponsors'
              /\ \A p \in Rows(products') : p.sponsor_id # id
              /\ \A c \in Rows(campaigns') :
                   c.sponsor_id # id /\ c.product_id \in DOMAIN products'
              /\ \A s \in DOMAIN sponsors \ {id} :
                   s \in DOMAIN sponsors' /\ sponsors'[s] = sponsors[s]
              /\ \A p \in DOMAIN products : products[p].sponsor_id # id =>
                   (p \in DOMAIN products' /\ products'[p] = products[p])
              /\ \A c \in DOMAIN campaigns : campaigns[c].sponsor_id # id =>
                   (c \in DOMAIN campaigns' /\ campaigns'[c] = campaigns[c])
              /\ UNCHANGED <<influencers, accounts, perfs>>
     /\ Deleted("deleteProduct") =>
          LET id == last'.input.id
          IN  /\ id \notin DOMAIN products'
              /\ \A c \in Rows(campaigns') : c.product_id # id
              /\ \A p \in DOMAIN products \ {id} :
                   p \in DOMAIN products' /\ products'[p] = products[p]
              /\ \A c \in DOMAIN campaigns : campaigns[c].product_id # id =>
                   (c \in DOMAIN campaigns' /\ campaigns'[c] = campaigns[c])
              /\ UNCHANGED <<influencers, accounts, perfs, sponsors>>]_vars

\* C21 witness: sponsor 1 was deleted after it got a second product;
\* only sponsor 2, its product and its campaign are left.
C21_Witness ==
  /\ last.op = "deleteSponsor"
  /\ last.input.id = 1
  /\ last.result = Ok(1)
  /\ serial.products = 3
  /\ DOMAIN sponsors = {2}
  /\ DOMAIN products = {2}
  /\ DOMAIN campaigns = {2}

(* ============================ order of get all ======================== *)
\* C22: getInfluencers and getSponsors return rows in ascending id order,
\* the order in which the rows were inserted.
C22_AscendingIds ==
  last.op \in {"getInfluencers", "getSponsors"} =>
    /\ last.result.ok
    /\ \A i, j \in 1..Len(last.result.value) :
         i < j => last.result.value[i].id < last.result.value[j].id

\* C22 witness: getSponsors answered with the two stored sponsors.
C22_Witness ==
  /\ last.op = "getSponsors"
  /\ DOMAIN sponsors = {1, 2}
  /\ Len(last.result.value) = 2

(* ============================ reads by parent ========================= *)
\* C23: getProductsBySponsor(id) returns exactly the products whose
\* sponsor_id is id and getPerformanceIndicatorsByInfluencer(id) exactly the
\* indicator rows whose influencer_id is id, each once; both answer with an
\* empty array, not an error, when the parent has no such rows or is not
\* stored.
C23_ExactlyTheChildren ==
  /\ last.op = "getProductsBySponsor" =>
       LET want == {p \in Rows(products) : p.sponsor_id = last.input.id}
       IN  /\ last.result.ok
           /\ Range(last.result.value) = want
           /\ Len(last.result.value) = Cardinality(want)
  /\ last.op = "getPerformanceIndicatorsByInfluencer" =>
       LET want == {p \in DOMAIN perfs : perfs[p].influencer_id = last.input.id}
       IN  /\ last.result.ok
           /\ Range(last.result.value) = {PerformanceOut(perfs[p]) : p \in want}
           /\ IdsOf(last.result) = want
           /\ Len(last.result.value) = Cardinality(want)

\* C23 witness: both sponsors have a product and the products of sponsor 2
\* were asked for.
C23_Witness ==
  /\ last.op = "getProductsBySponsor"
  /\ last.input.id = 2
  /\ {p.sponsor_id : p \in Rows(products)} = {1, 2}
  /\ Len(last.result.value) = 1
  /\ last.result.value[1].sponsor_id = 2

(* ========================== only the joins needed ===================== *)
IndicatorFilters == {"min_followers", "max_followers", "min_engagement_rate"}

\* The filters of a searchInfluencers input.
FiltersOf(input) == DOMAIN input \ {"limit", "offset"}

\* A search whose page holds every match has answered.
WholePage == last.op = "searchInfluencers" /\ last.input.limit = 50 /\ last.input.offset = 0

\* The indicator row passes the indicator filters the input carries.
IndicatorsPass(input, p) ==
  /\ Has(input, "min_followers") => p.followers_count >= input.min_followers
  /\ Has(input, "max_followers") => p.followers_count <= input.max_followers
  /\ Has(input, "min_engagement_rate") =>
       /\ p.avg_engagement_rate # NULL
       /\ ParseDecimal(p.avg_engagement_rate[1].text) >= input.min_engagement_rate

\* C24: searchInfluencers includes only the joins its filters need: with
\* platform as the only filter every influencer with an account on that
\* platform is returned, with or without indicator rows; with only
\* min_followers, max_followers or min_engagement_rate every influencer with
\* an indicator row that passes them is returned, with or without accounts.
C24_OnlyNeededJoins ==
  WholePage =>
    /\ FiltersOf(last.input) = {"platform"} =>
         \A a \in Rows(accounts) : a.platform = last.input.platform =>
           influencers[a.influencer_id] \in Range(last.result.value)
    /\ (FiltersOf(last.input) # {} /\ FiltersOf(last.input) \subseteq IndicatorFilters) =>
         \A p \in Rows(perfs) : IndicatorsPass(last.input, p) =>
           influencers[p.influencer_id] \in Range(last.result.value)

\* C24 witness: influencer 2 has indicators of 50 followers and no account,
\* and the search for min_followers 50 alone returned it.
C24_Witness ==
  /\ WholePage
  /\ FiltersOf(last.input) = {"min_followers"}
  /\ \E p \in Rows(perfs) : p.influencer_id = 2 /\ p.followers_count = 50
  /\ \A a \in Rows(accounts) : a.influencer_id # 2
  /\ influencers[2] \in Range(last.result.value)

(* ===================== category as the only filter ==================== *)
\* C25 as stated: searchInfluencers with category as the only filter, a
\* limit that covers the matches and offset 0 returns every influencer
\* whose bio or portfolio_description contains the category, letter case
\* aside, whether or not it has an account or an indicator row.
C25_EveryCategoryMatch ==
  (WholePage /\ FiltersOf(last.input) = {"category"} /\ last.input.category # <<>>) =>
    \A i \in Rows(influencers) :
      (Contains(i.bio, last.input.category)
         \/ Contains(i.portfolio_description, last.input.category)) =>
        i \in Range(last.result.value)

\* C25 witness: influencer 1, whose bio 'ab' contains 'B', has no indicator
\* row, and the search for category 'B' alone returned nothing.
C25_Witness ==
  /\ WholePage
  /\ FiltersOf(last.input) = {"category"} /\ last.input.category = <<"B">>
  /\ 1 \in DOMAIN influencers
  /\ Contains(influencers[1].bio, <<"B">>)
  /\ \A p \in Rows(perfs) : p.influencer_id # 1
  /\ last.result.value = <<>>

(* ====================== follower_count as given ======================= *)
\* C26 as stated: createSocialMediaAccount stores and returns the
\* follower_count it was given for every non-negative integer, 0 included;
\* the stored value is null only when follower_count was omitted or null.
C26_FollowerCountAsGiven ==
  (last.op = "createSocialMediaAccount" /\ last.result.ok) =>
    LET given == IF Has(last.input, "follower_count")
                 THEN last.input.follower_count ELSE NULL
    IN  /\ last.result.value.follower_count = given
        /\ accounts[last.result.value.id].follower_count = given

\* C26 witness: an account was created with follower_count 0 and the
\* answer and the stored row carry null.
C26_Witness ==
  /\ last.op = "createSocialMediaAccount" /\ last.result.ok
  /\ Has(last.input, "follower_count") /\ last.input.follower_count = Some(0)
  /\ last.result.value.follower_count = NULL
  /\ accounts[last.result.value.id].follower_count = NULL

(* ========================= the empty category ========================= *)
\* The searchInfluencers input without its category.
CategoryOmitted(input) == [k \in DOMAIN input \ {"category"} |-> input[k]]

\* C27 as stated: searchInfluencers treats the category '' as no category
\* filter: whatever is stored and whatever the other filters, the answer
\* for category '' holds the influencers the same request with category
\* omitted matches; with no other filter these are all influencers.
C27_EmptyCategoryIsNoFilter ==
  (WholePage /\ Has(last.input, "category") /\ last.input.category = <<>>) =>
    /\ Range(last.result.value) = InfluencerMatches(CategoryOmitted(last.input))
    /\ FiltersOf(last.input) = {"category"} =>
         Range(last.result.value) = Rows(influencers)

\* C27 witness: two influencers are stored, no account is, and the search
\* for category '' alone returned nothing.
C27_Witness ==
  /\ WholePage
  /\ FiltersOf(last.input) = {"category"} /\ last.input.category = <<>>
  /\ Cardinality(DOMAIN influencers) = 2
  /\ accounts = EmptyTable
  /\ last.result.value = <<>>

(* ================== concurrent updates of disjoint fields ============= *)
\* The fields an update input supplies.
Given(input) == DOMAIN input \ {"id"}

\* The update answered last and the update of request r are on the same
\* row and supply disjoint sets of fields.
DisjointOnOneRow(r) ==
  /\ last.op = req[r].op /\ last.result.ok
  /\ last.input.id = req[r].input.id
  /\ Given(last.input) # {} /\ Given(req[r].input) # {}
  /\ Given(last.input) \cap Given(req[r].input) = {}

\* C28: two partial updates of one row that supply disjoint sets of fields
\* both take effect, however their round trips interleave: when the second
\* UPDATE goes through the row carries the values of both, and neither
\* writes a stale value over the other's field.
C28_DisjointUpdatesBothApply ==
  [][\A r \in Slots : (UpdateApplied(r) /\ DisjointOnOneRow(r)) =>
       LET new == TableAfter(req[r].op)[req[r].input.id]
       IN  /\ \A k \in Given(last.input) : new[k] = ColumnOf(last.input, k)
           /\ \A k \in Given(req[r].input) : new[k] = ColumnOf(req[r].input, k)
           /\ \A k \in Given(last.input) : last'.result.value[k] = last.result.value[k]]_vars

\* C28 witness: updateCampaign with only the status read the clock at 0 and
\* is still waiting for its UPDATE, while updateCampaign with only the
\* title, which read the clock at 1, has gone through on the same campaign.
C28_Witness ==
  /\ last.op = "updateCampaign" /\ last.result.ok
  /\ Given(last.input) = {"title"}
  /\ last.result.value.updated_at = 1
  /\ \E r \in Slots :
       /\ At(r, "updateCampaign", "update")
       /\ req[r].input.id = last.input.id
       /\ Given(req[r].input) = {"status"}
       /\ req[r].ts = 0
  /\ campaigns[last.input.id].title = last.input.title

(* ========================= single-row mutations ======================= *)
\* The six tables by name, in this state and in the next.
Stored == [influencers |-> influencers, accounts |-> accounts, perfs |-> perfs,
           sponsors |-> sponsors, products |-> products, campaigns |-> campaigns]
StoredAfter == [influencers |-> influencers', accounts |-> accounts', perfs |-> perfs',
                sponsors |-> sponsors', products |-> products', campaigns |-> campaigns']

\* The table a create or an update writes.
WrittenBy(op) ==
  IF op \in {"createInfluencer", "updateInfluencer"} THEN "influencers"
  ELSE IF op = "createSocialMediaAccount" THEN "accounts"
  ELSE IF op = "createPerformanceIndicators" THEN "perfs"
  ELSE IF op \in {"createSponsor", "updateSponsor"} THEN "sponsors"
  ELSE IF op = "createProduct" THEN "products" ELSE "campaigns"

AllCreates == Creates \cup DependentCreates

\* A handler returns or throws in this step.
HandlerReturns ==
  \/ calls' # calls /\ req' = req
  \/ \E r \in Slots : req[r] # Idle /\ req'[r] = Idle

\* C29: every mutation touches a single row.  A step that changes a table
\* is the successful return of one create or update and changes the table
\* of that handler only: an update of the row with id X leaves every other
\* row of the table as it was and adds none, and a create adds one row and
\* leaves every existing row as it was.
C29_SingleRowMutations ==
  [][LET changed == {t \in DOMAIN Stored : StoredAfter[t] # Stored[t]}
     IN  /\ changed # {} =>
               /\ HandlerReturns /\ last'.result.ok
               /\ last'.op \in AllCreates \cup Updates
               /\ changed = {WrittenBy(last'.op)}
               /\ LET old == Stored[WrittenBy(last'.op)]
                      new == StoredAfter[WrittenBy(last'.op)]
                  IN  IF last'.op \in Updates
                      THEN /\ DOMAIN new = DOMAIN old
                           /\ \A i \in DOMAIN old \ {last'.input.id} : new[i] = old[i]
                      ELSE /\ DOMAIN new = DOMAIN old \cup {last'.result.value.id}
                           /\ last'.result.value.id \notin DOMAIN old
                           /\ \A i \in DOMAIN old : new[i] = old[i]
         /\ (HandlerReturns /\ last'.op \in AllCreates /\ last'.result.ok) =>
               changed = {WrittenBy(last'.op)}]_vars

\* C29 witness: two sponsors were created at time 0 and updateSponsor went
\* through on sponsor 1 at time 1; sponsor 2 is as it was created.
C29_Witness ==
  /\ last.op = "updateSponsor" /\ last.result.ok
  /\ last.input.id = 1
  /\ DOMAIN sponsors = {1, 2}
  /\ sponsors[1].updated_at = 1
  /\ sponsors[2].updated_at = 0 /\ sponsors[2].created_at = 0
  /\ sponsors[2].contact_email # sponsors[1].contact_email

(* ===================== rejected client mutations ====================== *)
\* The mutation of the form is settled in this step, and it was rejected.
Settles(form) == PendingOf(form) /\ ui'.pending = NULL
Rejected(form) == Unserved(form) \/ (Served(form) /\ ~last.result.ok)

\* The handler of the form goes from its submit to its await in this step.
Submits(form) == NonePending /\ ui'.pending # NULL /\ ui'.pending[1].form = form

\* What a submit handler shows of its outcome.
Outcome(view) == <<view.list, view.formData, view.open, view.stats, view.reloads>>

\* C30: in the create forms of the client (influencer, sponsor, product,
\* campaign, social account) the view state is updated only after the
\* remote call succeeds: the submit sets isLoading and nothing else; when
\* the mutation is rejected the entity lists, the form data and the dialog
\* flags keep their values and onStatsUpdate is not invoked; isLoading is
\* false again once the call has succeeded or failed.
C30_ViewUpdatedOnlyOnSuccess ==
  [][\A form \in Forms :
       /\ Submits(form) =>
            /\ ui'.isLoading[ComponentOf(form)]
            /\ Outcome(ui') = Outcome(ui)
       /\ Settles(form) => ~ui'.isLoading[ComponentOf(form)]
       /\ (Settles(form) /\ Rejected(form)) => Outcome(ui') = Outcome(ui)
       /\ (Settles(form) /\ ui'.stats # ui.stats) => (Served(form) /\ last.result.ok)
       /\ (Settles(form) /\ ui'.list # ui.list) => (Served(form) /\ last.result.ok)]_vars

\* C30 witness: createSponsor threw on the e-mail address of the stored
\* sponsor and the handler is done: the dialog is still open with the data
\* typed in, the list holds the one sponsor, onStatsUpdate was not invoked
\* and isLoading is false.
C30_Witness ==
  /\ ui # NoView
  /\ last.op = "createSponsor" /\ ~last.result.ok
  /\ NonePending
  /\ ~ui.isLoading["SponsorManagement"]
  /\ ui.open["sponsor"]
  /\ ui.formData["sponsor"] = last.input
  /\ Len(ui.list["sponsor"]) = 1
  /\ ui.stats = 0

(* ========================== unique e-mails ============================ *)
\* A handler that answers in one round trip has just answered.
Answers(op) == calls' # calls /\ req' = req /\ last'.op = op

UniqueColumn(table, col) ==
  \A a, b \in Rows(table) : a[col] = b[col] => a.id = b.id

\* C10: no two influencers share an email and no two sponsors a
\* contact_email, in every reachable state; a create or update that would
\* introduce a duplicate is answered with the constraint error and changes
\* no table, whatever else is in flight.
C10_Unique ==
  /\ UniqueColumn(influencers, "email")
  /\ UniqueColumn(sponsors, "contact_email")
C10_Rejected ==
  /\ (Answers("createInfluencer")
        /\ UniqueTaken(influencers, "email", last'.input.email, 0)) =>
       (last'.result = UniqueViolation("influencers_email_unique") /\ tables' = tables)
  /\ (Answers("createSponsor")
        /\ UniqueTaken(sponsors, "contact_email", last'.input.contact_email, 0)) =>
       (last'.result = UniqueViolation("sponsors_contact_email_unique") /\ tables' = tables)
  /\ \A r \in Slots :
       (/\ At(r, "updateInfluencer", "update") /\ req'[r] = Idle
        /\ Has(req[r].input, "email")
        /\ UniqueTaken(influencers, "email", req[r].input.email, req[r].input.id)) =>
         (last'.result = UniqueViolation("influencers_email_unique") /\ tables' = tables)
  /\ \A r \in Slots :
       (/\ At(r, "updateSponsor", "update") /\ req'[r] = Idle
        /\ Has(req[r].input, "contact_email")
        /\ WhereId(sponsors, req[r].input.id) # {}
        /\ UniqueTaken(sponsors, "contact_email", req[r].input.contact_email,
                       req[r].input.id)) =>
         (last'.result = UniqueViolation("sponsors_contact_email_unique")
          /\ tables' = tables)
C10_UniqueEmails == [](C10_Unique) /\ [][C10_Rejected]_vars

\* C10 witness: of two updates that move two sponsors to the same new
\* contact_email, the second was refused.
C10_Witness ==
  /\ last.op = "updateSponsor"
  /\ last.result = UniqueViolation("sponsors_contact_email_unique")
  /\ last.input.contact_email = "c@x.io"
  /\ Cardinality(DOMAIN sponsors) = 2

====
